---- MODULE Spec2Model ----
(***************************************************************************)
(* A model of the cascading "retry" network of ml_rust                     *)
(* (src/src/neural/nn/retry_nn.rs): escalation routing at prediction       *)
(* time, the confidence-augmented shape transform, recursive construction  *)
(* and the filesystem-backed lifecycle of a cascade (save, load,          *)
(* duplicate, set_internal, train, train_batch, predict, teardown), and    *)
(* the ReLU activation (src/src/nn/activation/relu.rs).                    *)
(***************************************************************************)
EXTENDS Integers, Sequences, FiniteSets, TLC

(***************************************************************************)
(* Bounds of the model.                                                    *)
(***************************************************************************)
\* signals range over the decimals -SigMax/100 .. SigMax/100
SigMax == 200
\* deepest recursion depth handed to predict
MaxPredLevels == 1
\* shapes have at most MaxLayers layers of widths 1..MaxWidth
MaxLayers == 2
MaxWidth == 2
\* deepest recursion depth handed to a constructor
MaxLevels == 3
\* recursion depth of the nodes whose life is followed
MaxLifeLevels == 1
\* vectors handed to an activation have 1..MaxVec elements, each a multiple
\* of one half from -MaxMag/2 to MaxMag/2
MaxVec == 3
MaxMag == 2
\* "backup" components below the directory handed to from_disk
MaxLoadDepth == 2
\* numeric suffixes probed for a duplicate's directory
MaxCopies == 1
\* saves of a scratch node that one node's historical set records
MaxPast == 1
\* trainings of one stage
MaxTrain == 1
\* file-system calls of one teardown among which one may fail
MaxFsOps == 2
\* a number of examples below the minimum
FewExamples == 50
MaxSize == 2
MaxExamples == 4
MaxEpochs == 2
MaxBatch == 2
MaxVersion == 3
MaxCells == 2
Tolerance == 25

(***************************************************************************)
(* Program constants, in hundredths where they are decimal literals.       *)
(***************************************************************************)
\* retry_nn.rs:96  (primary_output[last] - 1.0).abs() < 0.2
EscalateRef == 100
EscalateTol == 20
\* retry_nn.rs:313 primary_output[last].abs() < 0.05
TrainableRef == 0
TrainableTol == 5
\* retry_nn.rs:422  t.push(1.0): the escalation label that train gives to an
\* example the probe got wrong
WrongLabel == 100
RightLabel == 0
EarlyStop == 10
\* retry_nn.rs:385  inputs.len() < 100
MinExamples == 100
\* retry_nn.rs:35, 46  levels: i32, the least value of the type
I32Min == -2147483647 - 1
\* f64: 53 significant bits; the fixed-point window below holds every double
\* between 2^-7 and 4 exactly (2 integer bits, 60 fraction bits)
MantBits == 53
IntBits == 2
FracBits == 60

VARIABLES
  pred,   \* a call of predict: its input and, once done, its result
  aug,    \* a call of add_internal_dimensions
  ctor,   \* a call of a cascade constructor
  nodes,  \* the live cascades, by handle
  disk,   \* the directories on disk and the model each holds
  given,  \* the directories handed so far to save and to from_disk
  last,   \* the operation that led to this state
  act,    \* a call of an activation function: its vectors and results
  dense,  \* a dense layer: the sizes of its matrices and vectors
  net,    \* a stage network in a call of train, train_batch or save
  data    \* a call of train of a cascade node on a data set

vars == <<pred, aug, ctor, nodes, disk, given, last, act, dense, net, data>>

\* the value of a variable that the specification at hand does not use
Idle == [phase |-> "idle"]

(***************************************************************************)
(* IEEE-754 double arithmetic on the values the escalation test sees.      *)
(* A magnitude is a sequence of W bits, most significant first: bit i has  *)
(* weight 2^(IntBits - i).  A double is [neg, mag].                        *)
(***************************************************************************)
W == IntBits + FracBits

\* the bits f[1..W] as a sequence
Bits(f) == SubSeq(f, 1, W)

IsZero(b) == \A i \in 1..W : b[i] = 0

\* index of the leading one of a non-zero magnitude
Lead(b) == CHOOSE i \in 1..W : b[i] = 1 /\ \A j \in 1..(i - 1) : b[j] = 0

\* b + 2^(IntBits - p): ripple the carry up from position p
IncAt(b, p) ==
  LET z == CHOOSE j \in 0..p :
             /\ (j = 0 \/ b[j] = 0)
             /\ \A k \in (j + 1)..p : b[k] = 1
  IN Bits([i \in 1..W |-> IF i = z THEN 1 ELSE IF i > z /\ i <= p THEN 0 ELSE b[i]])

\* round-to-nearest, ties-to-even, to MantBits significant bits; sticky says
\* that the exact value has non-zero bits below the window
RoundNearestEven(b, sticky) ==
  IF IsZero(b) THEN b
  ELSE LET lsb == Lead(b) + MantBits - 1
       IN IF lsb >= W THEN b
          ELSE LET guard == b[lsb + 1]
                   rest  == sticky \/ \E j \in (lsb + 2)..W : b[j] = 1
                   kept  == Bits([i \in 1..W |-> IF i > lsb THEN 0 ELSE b[i]])
               IN IF guard = 1 /\ (rest \/ b[lsb] = 1)
                  THEN IncAt(kept, lsb) ELSE kept

\* long division of r/100 in base 2: the remainders before each of the next
\* n fraction bits
RECURSIVE Remainders(_, _)
Remainders(r, n) ==
  IF n = 0 THEN <<>> ELSE <<r>> \o Remainders((2 * r) % 100, n - 1)

\* the binary expansion of the decimal d/100 (d >= 0), cut after FracBits
DecimalBits(d) ==
  LET q  == d \div 100
      rs == Remainders(d % 100, FracBits)
  IN Bits([i \in 1..W |->
             IF i <= IntBits
             THEN (q \div (2 ^ (IntBits - i))) % 2
             ELSE (2 * rs[i - IntBits]) \div 100])

DecimalSticky(d) == Remainders(d % 100, FracBits + 1)[FracBits + 1] # 0

MagLt(a, b) == \E i \in 1..W : a[i] < b[i] /\ \A j \in 1..(i - 1) : a[j] = b[j]

\* the borrow into bit i of a - b: the bits below i of a are less than b's
Borrow(a, b, i) ==
  \E j \in (i + 1)..W : a[j] < b[j] /\ \A k \in (i + 1)..(j - 1) : a[k] = b[k]

\* the carry into bit i of a + b: generated at some bit below i and
\* propagated by every bit between
Carry(a, b, i) ==
  \E j \in (i + 1)..W : a[j] + b[j] = 2 /\ \A k \in (i + 1)..(j - 1) : a[k] + b[k] = 1

\* a - b for a >= b
MagSub(a, b) ==
  Bits([i \in 1..W |-> (a[i] - b[i] - (IF Borrow(a, b, i) THEN 1 ELSE 0) + 2) % 2])

\* a + b (the sums of the model stay below 2^IntBits)
MagAdd(a, b) ==
  Bits([i \in 1..W |-> (a[i] + b[i] + (IF Carry(a, b, i) THEN 1 ELSE 0)) % 2])

Abs(n) == IF n < 0 THEN -n ELSE n

\* the double nearest to the decimal literal d/100
F64(d) == [neg |-> d < 0,
           mag |-> RoundNearestEven(DecimalBits(Abs(d)), DecimalSticky(Abs(d)))]

\* x - y, correctly rounded
F64Sub(x, y) ==
  IF x.neg # y.neg
  THEN [neg |-> x.neg, mag |-> RoundNearestEven(MagAdd(x.mag, y.mag), FALSE)]
  ELSE IF MagLt(x.mag, y.mag)
       THEN [neg |-> ~x.neg, mag |-> RoundNearestEven(MagSub(y.mag, x.mag), FALSE)]
       ELSE [neg |-> x.neg, mag |-> RoundNearestEven(MagSub(x.mag, y.mag), FALSE)]

F64Abs(x) == [neg |-> FALSE, mag |-> x.mag]

F64Lt(x, y) ==
  IF x.neg /\ ~y.neg THEN ~(IsZero(x.mag) /\ IsZero(y.mag))
  ELSE IF ~x.neg /\ y.neg THEN FALSE
  ELSE IF x.neg THEN MagLt(y.mag, x.mag)
  ELSE MagLt(x.mag, y.mag)

(***************************************************************************)
(* Prediction (retry_nn.rs forward/predict).  A cascade handed to predict  *)
(* is described by what its stages compute on the input: sigs[i] is the    *)
(* last element (the escalation signal, a decimal in hundredths) of the    *)
(* output of the primary of the i-th node on the backup chain, the answer  *)
(* part of that output is `width` copies of i, and the terminal leaf       *)
(* answers `width` copies of LeafAnswer.                                   *)
(***************************************************************************)
Kinds == {"inference", "trainable"}

LeafAnswer == 0

RootSignals == (-SigMax)..SigMax

NestedSignals == {TrainableRef, EscalateRef - EscalateTol, EscalateRef}

PrimaryOutput(p, i) == [k \in 1..(p.width + 1) |-> IF k <= p.width THEN i ELSE p.sigs[i]]

LeafOutput(p) == [k \in 1..p.width |-> LeafAnswer]

\* the test of retry_nn.rs:96 without its abs()
RetryEscalatesSigned(s) ==
  F64Lt(F64Sub(F64(s), F64(EscalateRef)), F64(EscalateTol))

\* retry_nn.rs:96  (primary_output[len - 1] - 1.0).abs() < 0.2
RetryEscalates(s) ==
  F64Lt(F64Abs(F64Sub(F64(s), F64(EscalateRef))), F64(EscalateTol))

\* retry_nn.rs:313  primary_output[len - 1].abs() < 0.05
TrainableEscalates(s) == F64Lt(F64Abs(F64(s)), F64(TrainableTol))

Escalates(kind, s) ==
  IF kind = "inference" THEN RetryEscalates(s) ELSE TrainableEscalates(s)

\* forward of the i-th node of the chain; `ran` lists the stages whose
\* predict has run, in order
RECURSIVE Forward(_, _, _)
Forward(p, i, ran) ==
  LET primary_output == PrimaryOutput(p, i)
      ran1 == Append(ran, <<"primary", i>>)
  IN IF Escalates(p.kind, primary_output[Len(primary_output)])
     THEN IF i < Len(p.sigs)
          THEN Forward(p, i + 1, ran1)
          ELSE [out |-> LeafOutput(p), ran |-> Append(ran1, <<"leaf", i>>)]
     ELSE [out |-> SubSeq(primary_output, 1, Len(primary_output) - 1), ran |-> ran1]

PredictInputs ==
  UNION {
    { [phase |-> "call", kind |-> k, width |-> w, sigs |-> <<s>> \o t,
       out |-> <<>>, ran |-> <<>>] :
        k \in Kinds, w \in 1..2, s \in RootSignals, t \in [1..n -> NestedSignals] }
    : n \in 0..MaxPredLevels }

PredictInit ==
  /\ pred \in PredictInputs
  /\ aug = Idle /\ ctor = Idle /\ nodes = Idle /\ disk = Idle /\ given = Idle /\ last = Idle
  /\ act = Idle
  /\ dense = Idle /\ net = Idle /\ data = Idle

Predict ==
  /\ pred.phase = "call"
  /\ LET r == Forward(pred, 1, <<>>)
     IN pred' = [pred EXCEPT !.phase = "done", !.out = r.out, !.ran = r.ran]
  /\ UNCHANGED <<aug, ctor, nodes, disk, given, last, act, dense, net, data>>

PredictNext == Predict

SpecPredict == PredictInit /\ [][PredictNext]_vars

(***************************************************************************)
(* Shapes and the confidence-augmented shape transform                     *)
(* (retry_nn.rs add_internal_dimensions).                                  *)
(***************************************************************************)
Activations == {"ReLU", "Tanh"}

LayerShapes == [input : 1..MaxWidth, output : 1..MaxWidth, activation : Activations]

\* every shape of at most MaxLayers layers, valid or not, the empty one included
Shapes == UNION {[1..n -> LayerShapes] : n \in 0..MaxLayers}

\* output width of layer i equals input width of layer i + 1
IsValid(shape) ==
  \A i \in 1..(Len(shape) - 1) : shape[i].output = shape[i + 1].input

\* AnnotatedNeuralNetworkShape::change_layer: layer i is replaced
ChangeLayer(shape, i, layer) == [shape EXCEPT ![i] = layer]

\* the transform with the inputs of the later layers left as they were
AddInternalDimensionsNarrowInput(shape) ==
  IF shape = <<>> THEN [panic |-> TRUE, shape |-> <<>>]
  ELSE [panic |-> FALSE,
        shape |-> [i \in 1..Len(shape) |->
                     [input |-> shape[i].input, output |-> shape[i].output + 1,
                      activation |-> shape[i].activation]]]

\* retry_nn.rs:105-135.  first().unwrap() panics on a shape without layers.
AddInternalDimensions(shape) ==
  IF shape = <<>> THEN [panic |-> TRUE, shape |-> <<>>]
  ELSE LET first_layer == shape[1]
           first == ChangeLayer(shape, 1,
                      [input |-> first_layer.input,
                       output |-> first_layer.output + 1,
                       activation |-> first_layer.activation])
           Rest[n \in 1..Len(shape)] ==
             IF n = 1 THEN first
             ELSE ChangeLayer(Rest[n - 1], n,
                    [input |-> shape[n].input + 1,
                     output |-> shape[n].output + 1,
                     activation |-> shape[n].activation])
       IN [panic |-> FALSE, shape |-> Rest[Len(shape)]]

AugmentInit ==
  /\ aug \in {[phase |-> "call", shape |-> sh, panic |-> FALSE, result |-> <<>>] :
                sh \in Shapes}
  /\ pred = Idle /\ ctor = Idle /\ nodes = Idle /\ disk = Idle /\ given = Idle /\ last = Idle
  /\ act = Idle
  /\ dense = Idle /\ net = Idle /\ data = Idle

Augment ==
  /\ aug.phase = "call"
  /\ LET r == AddInternalDimensions(aug.shape)
     IN aug' = [aug EXCEPT !.phase = "done", !.panic = r.panic, !.result = r.shape]
  /\ UNCHANGED <<pred, ctor, nodes, disk, given, last, act, dense, net, data>>

AugmentNext == Augment

SpecShape == AugmentInit /\ [][AugmentNext]_vars

(***************************************************************************)
(* Paths and model locations.  A path is a root directory name, written    *)
(* base or base_n for the n-th sibling that duplicate probes, followed by  *)
(* sub-directories.                                                        *)
(***************************************************************************)
Root(base) == [base |-> base, n |-> 0, sub |-> <<>>]

NoPath == Root("")

\* retry_nn.rs:137-142 append_dir
AppendDir(model_directory, subdir) ==
  [model_directory EXCEPT !.sub = Append(@, subdir)]

\* dir followed by k "backup" components
RECURSIVE BackupDir(_, _)
BackupDir(dir, k) ==
  IF k = 0 THEN dir ELSE AppendDir(BackupDir(dir, k - 1), "backup")

\* Directory::Internal (scratch) and Directory::User (persisted)
Internal(path) == [tag |-> "Internal", path |-> path]

User(path) == [tag |-> "User", path |-> path]

(***************************************************************************)
(* Stages and cascades in memory.  A stage is a plain network with its     *)
(* location and its weights, which the model tells apart by a version      *)
(* number: 0 when fresh, one more after each training.  A cascade is       *)
(* written as its backup chain: casc[1] is the root node, casc[i + 1] is   *)
(* the backup of casc[i], and `leaf` is the backup of the last one.        *)
(***************************************************************************)
NoNode == [kind |-> "none", casc |-> <<>>]

\* ClassicNeuralNetwork::new / TrainableClassicNeuralNetwork::new
NewStage(shape, dir) == [shape |-> shape, dir |-> Internal(dir), w |-> 0]

\* the fields of one RetryNeuralNetwork / TrainableRetryNeuralNetwork
\* (retry_nn.rs:39-44 and 59-66), its backup being the next of the chain
NewCascadeNode(shape, dir) ==
  [shape   |-> shape,
   dir     |-> Internal(dir),
   past    |-> <<>>,
   primary |-> NewStage(AddInternalDimensions(shape).shape, AppendDir(dir, "primary"))]

\* a constructor that takes level 1 for the deepest one
RECURSIVE NewCascadesShort(_, _, _)
NewCascadesShort(shape, levels, dir) ==
  IF levels >= 2
  THEN <<NewCascadeNode(shape, dir)>>
         \o NewCascadesShort(shape, levels - 1, AppendDir(dir, "backup"))
  ELSE <<NewCascadeNode(shape, dir)>>

\* retry_nn.rs:45-56 and 253-266: the nodes built by new(shape, levels, dir),
\* levels >= 0
RECURSIVE NewCascades(_, _, _)
NewCascades(shape, levels, dir) ==
  IF levels >= 1
  THEN <<NewCascadeNode(shape, dir)>>
         \o NewCascades(shape, levels - 1, AppendDir(dir, "backup"))
  ELSE <<NewCascadeNode(shape, dir)>>

\* retry_nn.rs:40-58 and 248-268: the constructor calls that
\* new(shape, levels, dir) makes, in order: the primary stage, then by the
\* match on levels a recursive new, the terminal stage, or none before the
\* panic of the last arm
RECURSIVE NewCalls(_, _)
NewCalls(levels, dir) ==
  <<[call |-> "stage", levels |-> 0, dir |-> AppendDir(dir, "primary")]>>
    \o (IF levels >= 1
        THEN <<[call |-> "new", levels |-> levels - 1, dir |-> AppendDir(dir, "backup")]>>
               \o NewCalls(levels - 1, AppendDir(dir, "backup"))
        ELSE IF levels = 0
        THEN <<[call |-> "stage", levels |-> 0, dir |-> AppendDir(dir, "backup")]>>
        ELSE <<>>)

\* a constructor that takes a negative level for level 0
RetryNewClamped(kind, shape, levels, dir) ==
  IF AddInternalDimensions(shape).panic
  THEN [panic |-> TRUE, node |-> NoNode]
  ELSE LET casc == NewCascades(shape, levels, dir)
       IN [panic |-> FALSE,
           node  |-> [kind |-> kind,
                      casc |-> casc,
                      leaf |-> NewStage(shape,
                                 AppendDir(casc[Len(casc)].dir.path, "backup"))]]

\* retry_nn.rs:33-67 and 240-277: new panics on a shape without layers
\* (first().unwrap()) and on a negative level (the match's last arm)
RetryNew(kind, shape, levels, dir) ==
  IF AddInternalDimensions(shape).panic \/ levels < 0
  THEN [panic |-> TRUE, node |-> NoNode]
  ELSE LET casc == NewCascades(shape, levels, dir)
       IN [panic |-> FALSE,
           node  |-> [kind |-> kind,
                      casc |-> casc,
                      leaf |-> NewStage(shape,
                                 AppendDir(casc[Len(casc)].dir.path, "backup"))]]

\* the non-empty valid shapes
ValidShapes == {sh \in Shapes : sh # <<>> /\ IsValid(sh)}

ConstructInit ==
  /\ ctor \in {[phase |-> "call", kind |-> k, shape |-> sh, levels |-> n,
                 panic |-> FALSE, node |-> NoNode, made |-> <<>>] :
                 k \in Kinds, sh \in ValidShapes, n \in {I32Min} \cup (-1)..MaxLevels}
  /\ pred = Idle /\ aug = Idle /\ nodes = Idle /\ disk = Idle /\ given = Idle /\ last = Idle
  /\ act = Idle
  /\ dense = Idle /\ net = Idle /\ data = Idle

Construct ==
  /\ ctor.phase = "call"
  /\ LET r == RetryNew(ctor.kind, ctor.shape, ctor.levels, Root("m"))
     IN ctor' = [ctor EXCEPT !.phase = "done", !.panic = r.panic, !.node = r.node,
                             !.made = NewCalls(ctor.levels, Root("m"))]
  /\ UNCHANGED <<pred, aug, nodes, disk, given, last, act, dense, net, data>>

ConstructNext == Construct

SpecNew == ConstructInit /\ [][ConstructNext]_vars

(***************************************************************************)
(* The file system.  disk maps every existing path to what it holds: a     *)
(* plain directory, or the files of a saved stage (its shape descriptor    *)
(* and the version of the weights written to its layer files).             *)
(***************************************************************************)
PlainDir == [w |-> -1, shape |-> <<>>]

EmptyDisk == [q \in {} |-> PlainDir]

\* std::fs::metadata(p).is_ok() / Path::exists
Exists(d, p) == p \in DOMAIN d

\* q is p or lies below p
Under(q, p) ==
  /\ q.base = p.base
  /\ q.n = p.n
  /\ Len(q.sub) >= Len(p.sub)
  /\ SubSeq(q.sub, 1, Len(p.sub)) = p.sub

\* p and the directories above it
Ancestors(p) == {[p EXCEPT !.sub = SubSeq(p.sub, 1, k)] : k \in 0..Len(p.sub)}

\* std::fs::create_dir_all
CreateDirAll(d, p) ==
  [q \in DOMAIN d \cup Ancestors(p) |-> IF q \in DOMAIN d THEN d[q] ELSE PlainDir]

\* std::fs::remove_dir_all
RemoveDirAll(d, p) == [q \in {r \in DOMAIN d : ~Under(r, p)} |-> d[q]]

\* shape.to_yaml and save_layers (neuralnet.rs:493-500, 514-516)
WriteModel(d, p, stage) ==
  [q \in DOMAIN d \cup Ancestors(p) |->
     IF q = p THEN [w |-> stage.w, shape |-> stage.shape]
     ELSE IF q \in DOMAIN d THEN d[q] ELSE PlainDir]

\* neuralnet.rs:502-524 save: an existing directory is moved aside, the
\* directory is created, the model is written, the moved copy is removed
StageWrite(d, p, stage) == WriteModel(RemoveDirAll(d, p), p, stage)

\* the path under `to` that corresponds to q under `from`
Rebase(q, from, to) ==
  [to EXCEPT !.sub = @ \o SubSeq(q.sub, Len(from.sub) + 1, Len(q.sub))]

\* nn_factory::copy_dir_recursive: None when the source does not exist
CopyDirRecursive(d, from, to) ==
  LET copied == {q \in DOMAIN d : Under(q, from)}
  IN [q \in DOMAIN d \cup {Rebase(r, from, to) : r \in copied} |->
        IF Under(q, to)
        THEN d[CHOOSE r \in copied : Rebase(r, from, to) = q]
        ELSE d[q]]

\* the k-th sibling of a path: the base name with numeric suffix k
Sibling(path, k) == [path EXCEPT !.n = k]

HasFree(d, path) == \E k \in 1..MaxCopies : ~Exists(d, Sibling(path, k))

\* nn_factory::get_first_free_model_directory
FirstFree(d, path) ==
  Sibling(path, CHOOSE k \in 1..MaxCopies :
                  /\ ~Exists(d, Sibling(path, k))
                  /\ \A j \in 1..(k - 1) : Exists(d, Sibling(path, j)))

(***************************************************************************)
(* Stage operations: the plain network behind primary_nn and a terminal    *)
(* backup_nn.                                                              *)
(***************************************************************************)
NoStage == [shape |-> <<>>, dir |-> Internal(NoPath), w |-> 0]

\* save(dir) of a stage: the stage becomes persisted at dir
StageSave(stage, dir, d) ==
  [stage |-> [stage EXCEPT !.dir = User(dir)], disk |-> StageWrite(d, dir, stage)]

\* deallocate of a stage: its in-memory state is flushed to its directory
StageDeallocate(stage, d) == WriteModel(d, stage.dir.path, stage)

StageSetInternal(stage) == [stage EXCEPT !.dir = Internal(@.path)]

\* from_disk of a stage: None unless dir holds a saved stage
StageFromDisk(d, dir) ==
  IF Exists(d, dir) /\ d[dir].w >= 0
  THEN [panic |-> FALSE,
        stage |-> [shape |-> d[dir].shape, dir |-> User(dir), w |-> d[dir].w]]
  ELSE [panic |-> TRUE, stage |-> NoStage]

\* train of a stage on count examples: new weights
StageTrain(stage, count) == [stage EXCEPT !.w = IF count > 0 THEN @ + 1 ELSE @]

\* teardown of a stage: flushed when persisted, removed when scratch
StageDrop(stage, d) ==
  IF stage.dir.tag = "User"
  THEN WriteModel(d, stage.dir.path, stage)
  ELSE RemoveDirAll(d, stage.dir.path)

(***************************************************************************)
(* Cascade operations.  Each takes the chain (casc, leaf) of a node and    *)
(* recurses into the backup as the code does.                              *)
(***************************************************************************)
ShapeOf(casc, leaf) == IF casc = <<>> THEN leaf.shape ELSE casc[1].shape

\* a from_disk that tells a cascade by its backup sub-path
RECURSIVE FromDiskByBackup(_, _)
FromDiskByBackup(d, model_directory) ==
  LET primary_model_directory == AppendDir(model_directory, "primary")
      backup_model_directory == AppendDir(model_directory, "backup")
  IN IF Exists(d, backup_model_directory)
     THEN LET primary_nn == StageFromDisk(d, primary_model_directory)
              backup_nn == FromDiskByBackup(d, backup_model_directory)
          IN IF primary_nn.panic \/ backup_nn.panic
             THEN [panic |-> TRUE, casc |-> <<>>, leaf |-> NoStage]
             ELSE [panic |-> FALSE,
                   casc  |-> <<[shape   |-> ShapeOf(backup_nn.casc, backup_nn.leaf),
                                dir     |-> User(model_directory),
                                past    |-> <<>>,
                                primary |-> primary_nn.stage]>> \o backup_nn.casc,
                   leaf  |-> backup_nn.leaf]
     ELSE LET nn == StageFromDisk(d, model_directory)
          IN [panic |-> nn.panic, casc |-> <<>>, leaf |-> nn.stage]

\* retry_nn.rs:69-91 and 279-308 from_disk
RECURSIVE FromDisk(_, _)
FromDisk(d, model_directory) ==
  LET primary_model_directory == AppendDir(model_directory, "primary")
      backup_model_directory == AppendDir(model_directory, "backup")
  IN IF Exists(d, primary_model_directory)
     THEN LET primary_nn == StageFromDisk(d, primary_model_directory)
              backup_nn == FromDisk(d, backup_model_directory)
          IN IF primary_nn.panic \/ backup_nn.panic
             THEN [panic |-> TRUE, casc |-> <<>>, leaf |-> NoStage]
             ELSE [panic |-> FALSE,
                   casc  |-> <<[shape   |-> ShapeOf(backup_nn.casc, backup_nn.leaf),
                                dir     |-> User(model_directory),
                                past    |-> <<>>,
                                primary |-> primary_nn.stage]>> \o backup_nn.casc,
                   leaf  |-> backup_nn.leaf]
     ELSE LET nn == StageFromDisk(d, model_directory)
          IN [panic |-> nn.panic, casc |-> <<>>, leaf |-> nn.stage]

\* a save that does not go on to the backup
RECURSIVE RetrySavePrimaryOnly(_, _, _, _)
RetrySavePrimaryOnly(casc, leaf, user_model_directory, d) ==
  IF casc = <<>>
  THEN LET s == StageSave(leaf, user_model_directory, d)
       IN [casc |-> <<>>, leaf |-> s.stage, disk |-> s.disk,
           log |-> <<user_model_directory>>]
  ELSE LET self == Head(casc)
           primary_user_model_directory == AppendDir(user_model_directory, "primary")
           p == StageSave(self.primary, primary_user_model_directory, d)
       IN [casc |-> <<[self EXCEPT
                         !.past = IF self.dir.tag = "Internal"
                                  THEN Append(@, self.dir.path) ELSE @,
                         !.dir = User(user_model_directory),
                         !.primary = p.stage]>> \o Tail(casc),
           leaf |-> leaf,
           disk |-> p.disk,
           log  |-> <<primary_user_model_directory>>]

\* a save that does not record the scratch path it leaves
RECURSIVE RetrySaveForgetsPast(_, _, _, _)
RetrySaveForgetsPast(casc, leaf, user_model_directory, d) ==
  IF casc = <<>>
  THEN LET s == StageSave(leaf, user_model_directory, d)
       IN [casc |-> <<>>, leaf |-> s.stage, disk |-> s.disk,
           log |-> <<user_model_directory>>]
  ELSE LET self == Head(casc)
           primary_user_model_directory == AppendDir(user_model_directory, "primary")
           backup_user_model_directory == AppendDir(user_model_directory, "backup")
           p == StageSave(self.primary, primary_user_model_directory, d)
           b == RetrySaveForgetsPast(Tail(casc), leaf, backup_user_model_directory, p.disk)
       IN [casc |-> <<[self EXCEPT
                         !.dir = User(user_model_directory),
                         !.primary = p.stage]>> \o b.casc,
           leaf |-> b.leaf,
           disk |-> b.disk,
           log  |-> <<primary_user_model_directory>> \o b.log]

\* retry_nn.rs:153-164 and 331-342 save; log lists the directories written,
\* in order
RECURSIVE RetrySave(_, _, _, _)
RetrySave(casc, leaf, user_model_directory, d) ==
  IF casc = <<>>
  THEN LET s == StageSave(leaf, user_model_directory, d)
       IN [casc |-> <<>>, leaf |-> s.stage, disk |-> s.disk,
           log |-> <<user_model_directory>>]
  ELSE LET self == Head(casc)
           primary_user_model_directory == AppendDir(user_model_directory, "primary")
           backup_user_model_directory == AppendDir(user_model_directory, "backup")
           p == StageSave(self.primary, primary_user_model_directory, d)
           b == RetrySave(Tail(casc), leaf, backup_user_model_directory, p.disk)
       IN [casc |-> <<[self EXCEPT
                         !.past = IF self.dir.tag = "Internal"
                                  THEN Append(@, self.dir.path) ELSE @,
                         !.dir = User(user_model_directory),
                         !.primary = p.stage]>> \o b.casc,
           leaf |-> b.leaf,
           disk |-> b.disk,
           log  |-> <<primary_user_model_directory>> \o b.log]

\* retry_nn.rs:153-164 and 331-342 save, the save of the stage numbered
\* `fault` in the order of writing returning Err: the `?` returns the error
\* at once, after the assignments of lines 154-158.  The stage that fails
\* has written nothing and keeps its location.
RECURSIVE RetrySaveFailing(_, _, _, _, _)
RetrySaveFailing(casc, leaf, user_model_directory, d, fault) ==
  IF casc = <<>>
  THEN [casc |-> <<>>, leaf |-> leaf, disk |-> d, log |-> <<>>]
  ELSE LET self == Head(casc)
           primary_user_model_directory == AppendDir(user_model_directory, "primary")
           backup_user_model_directory == AppendDir(user_model_directory, "backup")
           moved == [self EXCEPT
                       !.past = IF self.dir.tag = "Internal"
                                THEN Append(@, self.dir.path) ELSE @,
                       !.dir = User(user_model_directory)]
           p == StageSave(self.primary, primary_user_model_directory, d)
           b == RetrySaveFailing(Tail(casc), leaf, backup_user_model_directory,
                                 p.disk, fault - 1)
       IN IF fault = 1
          THEN [casc |-> <<moved>> \o Tail(casc), leaf |-> leaf, disk |-> d,
                log |-> <<>>]
          ELSE [casc |-> <<[moved EXCEPT !.primary = p.stage]>> \o b.casc,
                leaf |-> b.leaf,
                disk |-> b.disk,
                log  |-> <<primary_user_model_directory>> \o b.log]

\* the escalation tests of the two kinds on the signals of nested nodes,
\* tabulated
Escalation == [kind \in Kinds |-> [s \in NestedSignals |-> Escalates(kind, s)]]

\* the width of the vector a stage of this shape answers
OutWidth(shape) == shape[Len(shape)].output

\* the output of the primary of the k-th node of the chain: as wide as its
\* shape says, the escalation signal last
StageOutput(casc, sigs, k) ==
  LET w == OutWidth(casc[k].primary.shape)
  IN [j \in 1..w |-> IF j < w THEN k ELSE sigs[k]]

\* a forward that returns the primary output with the signal left on
RECURSIVE RetryForwardUntruncated(_, _, _, _, _, _)
RetryForwardUntruncated(kind, casc, leaf, sigs, k, ran) ==
  LET primary_output == StageOutput(casc, sigs, k)
      ran1 == Append(ran, <<"primary", k>>)
  IN IF Escalation[kind][primary_output[Len(primary_output)]]
     THEN IF k < Len(casc)
          THEN RetryForwardUntruncated(kind, casc, leaf, sigs, k + 1, ran1)
          ELSE [out |-> [j \in 1..OutWidth(leaf.shape) |-> LeafAnswer],
                ran |-> Append(ran1, <<"leaf", k>>)]
     ELSE [out |-> primary_output, ran |-> ran1]

\* retry_nn.rs:93-102 and 310-320 forward, on the k-th node of the chain of
\* a node in memory; ran lists the stages whose predict has run, in order
RECURSIVE RetryForward(_, _, _, _, _, _)
RetryForward(kind, casc, leaf, sigs, k, ran) ==
  LET primary_output == StageOutput(casc, sigs, k)
      ran1 == Append(ran, <<"primary", k>>)
  IN IF Escalation[kind][primary_output[Len(primary_output)]]
     THEN IF k < Len(casc)
          THEN RetryForward(kind, casc, leaf, sigs, k + 1, ran1)
          ELSE [out |-> [j \in 1..OutWidth(leaf.shape) |-> LeafAnswer],
                ran |-> Append(ran1, <<"leaf", k>>)]
     ELSE [out |-> SubSeq(primary_output, 1, Len(primary_output) - 1), ran |-> ran1]

\* a duplicate made in the source's own directory
DuplicateInPlace(d, model_directory) == model_directory.path

\* retry_nn.rs:187 and 505: the directory of a duplicate
DuplicateDirectory(d, model_directory) == FirstFree(d, model_directory.path)

\* retry_nn.rs:175-178 and 353-356 deallocate
RECURSIVE RetryDeallocate(_, _, _)
RetryDeallocate(casc, leaf, d) ==
  IF casc = <<>>
  THEN StageDeallocate(leaf, d)
  ELSE RetryDeallocate(Tail(casc), leaf, StageDeallocate(Head(casc).primary, d))

\* retry_nn.rs:180-184 and 358-362 set_internal
RetrySetInternal(casc) ==
  [k \in 1..Len(casc) |->
     [casc[k] EXCEPT !.dir = Internal(@.path),
                     !.primary = StageSetInternal(@)]]

\* retry_nn.rs:385 the guard of train
TooFewInclusive(count) == count <= MinExamples

TooFew(count) == count < MinExamples

Min(a, b) == IF a < b THEN a ELSE b

\* a train that reports the accuracy of its primary alone
RECURSIVE RetryTrainPrimaryAccuracy(_, _, _, _, _)
RetryTrainPrimaryAccuracy(casc, leaf, count, env, d) ==
  IF casc = <<>>
  THEN [casc |-> <<>>, leaf |-> StageTrain(leaf, count), disk |-> d,
        ret |-> env.la, log |-> << <<"leaf", count>> >>, acc |-> <<env.la>>]
  ELSE IF TooFew(count)
  THEN [casc |-> casc, leaf |-> leaf, disk |-> d, ret |-> 0, log |-> <<>>,
        acc |-> <<>>]
  ELSE LET self == Head(casc)
           temp_neural_network ==
             StageTrain(NewStage(self.shape,
                                 AppendDir(self.dir.path, "temp_primary")), count)
           primary_nn == StageTrain(self.primary, count)
           b == RetryTrainPrimaryAccuracy(Tail(casc), leaf, Min(env.kept, count), env, d)
       IN [casc |-> <<[self EXCEPT !.primary = primary_nn]>> \o b.casc,
           leaf |-> b.leaf,
           disk |-> StageDrop(temp_neural_network, b.disk),
           ret  |-> env.pa,
           log  |-> << <<"probe", count>>, <<"primary", count>>,
                       <<"backup", Min(env.kept, count)>> >> \o b.log,
           acc  |-> <<env.pa>> \o b.acc]

\* retry_nn.rs:374-475 train.  env holds what the data decide: kept, the
\* number of examples the trained primary answers within tolerance, and
\* the accuracies the primary stages (pa) and the terminal stage (la)
\* report.  log lists the trainings called, in order, with the number of
\* examples each is given: the probe, the primary, then the backup and
\* what the backup trains in turn.  acc lists the accuracies that the
\* stages trained have returned, in the same order.
RECURSIVE RetryTrain(_, _, _, _, _)
RetryTrain(casc, leaf, count, env, d) ==
  IF casc = <<>>
  THEN [casc |-> <<>>, leaf |-> StageTrain(leaf, count), disk |-> d,
        ret |-> env.la, log |-> << <<"leaf", count>> >>, acc |-> <<env.la>>]
  ELSE IF TooFew(count)
  THEN [casc |-> casc, leaf |-> leaf, disk |-> d, ret |-> 0, log |-> <<>>,
        acc |-> <<>>]
  ELSE LET self == Head(casc)
           temp_neural_network ==
             StageTrain(NewStage(self.shape,
                                 AppendDir(self.dir.path, "temp_primary")), count)
           primary_nn == StageTrain(self.primary, count)
           b == RetryTrain(Tail(casc), leaf, Min(env.kept, count), env, d)
       IN [casc |-> <<[self EXCEPT !.primary = primary_nn]>> \o b.casc,
           leaf |-> b.leaf,
           disk |-> StageDrop(temp_neural_network, b.disk),
           ret  |-> env.pa + b.ret,
           log  |-> << <<"probe", count>>, <<"primary", count>>,
                       <<"backup", Min(env.kept, count)>> >> \o b.log,
           acc  |-> <<env.pa>> \o b.acc]

(***************************************************************************)
(* Teardown.  st carries the disk through the file-system operations of    *)
(* one teardown: n counts the create_dir_all / remove_dir_all calls of     *)
(* cascade nodes so far, and the call numbered `fault` (none when 0)       *)
(* fails, at path `at`, leaving the disk as it was; calls lists the calls  *)
(* that succeeded, in order.                                               *)
(***************************************************************************)
Start(d, fault) ==
  [disk |-> d, n |-> 0, fault |-> fault, failed |-> FALSE, at |-> NoPath,
   calls |-> <<>>]

\* one create_dir_all / remove_dir_all call with result d, .unwrap()ed
Try(st, call, p, d) ==
  IF st.n + 1 = st.fault
  THEN [st EXCEPT !.n = @ + 1, !.failed = TRUE, !.at = p]
  ELSE [st EXCEPT !.n = @ + 1, !.disk = d, !.calls = Append(@, <<call, p>>)]

\* the unwrap() of this call has panicked
Panicked(before, after) == after.failed /\ ~before.failed

\* a sweep that removes nothing
RECURSIVE SweepNothing(_, _, _, _)
SweepNothing(past, k, current, st) == st

\* a sweep that does not spare the current path
RECURSIVE SweepAll(_, _, _, _)
SweepAll(past, k, current, st) ==
  IF k > Len(past) THEN st
  ELSE IF Exists(st.disk, past[k])
  THEN SweepAll(past, k + 1, current,
                Try(st, "remove_dir_all", past[k], RemoveDirAll(st.disk, past[k])))
  ELSE SweepAll(past, k + 1, current, st)

\* retry_nn.rs:220-224 and 535-539: the loop over
\* past_internal_model_directories, from its k-th element
RECURSIVE Sweep(_, _, _, _)
Sweep(past, k, current, st) ==
  IF k > Len(past) THEN st
  ELSE IF past[k] # current /\ Exists(st.disk, past[k])
  THEN LET st1 == Try(st, "remove_dir_all", past[k], RemoveDirAll(st.disk, past[k]))
       IN IF Panicked(st, st1) THEN st1 ELSE Sweep(past, k + 1, current, st1)
  ELSE Sweep(past, k + 1, current, st)

\* retry_nn.rs:204-225 and 519-540: the body of drop for the node Head(casc)
DropBody(casc, leaf, st) ==
  LET self == Head(casc)
      path == self.dir.path
      st1 == IF self.dir.tag = "User"
             THEN IF ~Exists(st.disk, path)
                  THEN Try(st, "create_dir_all", path, CreateDirAll(st.disk, path))
                  ELSE st
             ELSE IF Exists(st.disk, path)
                  THEN Try(st, "remove_dir_all", path, RemoveDirAll(st.disk, path))
                  ELSE st
      st2 == IF self.dir.tag = "User"
             THEN [st1 EXCEPT !.disk = RetryDeallocate(casc, leaf, @)]
             ELSE st1
  IN IF Panicked(st, st1) THEN st1 ELSE Sweep(self.past, 1, path, st2)

\* drop of a node: its body, then its fields in declaration order,
\* primary_nn before backup_nn (retry_nn.rs:22-29, 229-237); the fields are
\* dropped also when the body has panicked
RECURSIVE RetryDrop(_, _, _)
RetryDrop(casc, leaf, st) ==
  IF casc = <<>>
  THEN [st EXCEPT !.disk = StageDrop(leaf, @)]
  ELSE LET body == DropBody(casc, leaf, st)
           fields == [body EXCEPT !.disk = StageDrop(Head(casc).primary, @)]
       IN RetryDrop(Tail(casc), leaf, fields)

(***************************************************************************)
(* The life of the nodes of one program: a caller holds root nodes and      *)
(* applies the operations of the interface to them.                        *)
(***************************************************************************)
\* the nodes a caller holds: a node N it builds or loads, and a duplicate D
Ids == {"N", "D"}

Bases == {"m", "u"}

\* the directories a caller names
RootPaths == {Root(b) : b \in Bases}

\* the one-layer shape of the nodes built here
LifeShape == <<[input |-> 1, output |-> 1, activation |-> "ReLU"]>>

TrainCounts == {FewExamples, MinExamples - 1, MinExamples}

Accuracies == {50, 100}

Live(i) == nodes[i].kind # "none"

IsCascade(i) == Live(i) /\ nodes[i].casc # <<>>

\* the paths node i answers for: its location and its historical paths
Claimed(i) ==
  IF IsCascade(i)
  THEN {nodes[i].casc[1].dir.path}
         \cup {nodes[i].casc[1].past[k] : k \in 1..Len(nodes[i].casc[1].past)}
  ELSE {}

\* the caller gives a path to one node at a time
FreeFor(i, p) == \A j \in Ids \ {i} : p \notin Claimed(j)

Stages(node) ==
  {node.casc[k].primary : k \in 1..Len(node.casc)} \cup {node.leaf}

\* the location and the historical paths of root node i
Was(i) == IF IsCascade(i) THEN nodes[i].casc[1].dir ELSE Internal(NoPath)

PastOf(i) == IF IsCascade(i) THEN nodes[i].casc[1].past ELSE <<>>

\* the record of the last operation: the node it was applied to, the
\* directory it was given, the node's location and historical paths before
\* it, its example count, its result and what it did, in order;
\* for a train, the accuracies its stages have reported; for a predict, the
\* escalation signals its primaries emit and the vector it returns
Did(op, id, path, count, ret, log) ==
  [op |-> op, id |-> id, path |-> path, was |-> Was(id), past |-> PastOf(id),
   count |-> count, ret |-> ret, log |-> log, gone |-> {},
   failed |-> FALSE, at |-> NoPath, acc |-> <<>>, sigs |-> <<>>, out |-> <<>>]

\* the caller's directories that are on disk d and no longer on disk e
Gone(d, e) == {q \in DOMAIN d : q.sub = <<>> /\ q \notin DOMAIN e}

LifeInit ==
  /\ nodes = [i \in Ids |-> NoNode]
  /\ disk = EmptyDisk
  /\ given = {}
  /\ last = Did("init", "N", NoPath, 0, 0, <<>>)
  /\ pred = Idle /\ aug = Idle /\ ctor = Idle
  /\ act = Idle
  /\ dense = Idle /\ net = Idle /\ data = Idle

\* RetryNeuralNetwork::new / TrainableRetryNeuralNetwork::new
New(i, kind, levels, dir) ==
  /\ ~Live(i)
  /\ FreeFor(i, dir)
  /\ LET r == RetryNew(kind, LifeShape, levels, dir)
     IN /\ ~r.panic
        /\ nodes' = [nodes EXCEPT ![i] = r.node]
  /\ last' = Did("new", i, dir, levels, 0, <<>>)
  /\ UNCHANGED <<disk, given, pred, aug, ctor, act, dense, net, data>>

\* RetryNeuralNetwork::from_disk / TrainableRetryNeuralNetwork::from_disk;
\* the unwrap() of a stage that cannot be read ends the program
Load(i, kind, dir) ==
  /\ ~Live(i)
  /\ FreeFor(i, dir)
  /\ LET r == FromDisk(disk, dir)
     IN /\ ~r.panic
        /\ nodes' = [nodes EXCEPT ![i] = [kind |-> kind, casc |-> r.casc, leaf |-> r.leaf]]
  /\ given' = given \cup {dir}
  /\ last' = Did("load", i, dir, 0, 0, <<>>)
  /\ UNCHANGED <<disk, pred, aug, ctor, act, dense, net, data>>

\* NeuralNetwork::save
Save(i, dir) ==
  /\ IsCascade(i)
  /\ FreeFor(i, dir)
  /\ Len(nodes[i].casc[1].past) < MaxPast
  /\ LET r == RetrySave(nodes[i].casc, nodes[i].leaf, dir, disk)
     IN /\ nodes' = [nodes EXCEPT ![i].casc = r.casc, ![i].leaf = r.leaf]
        /\ disk' = r.disk
        /\ last' = Did("save", i, dir, 0, 0, r.log)
  /\ given' = given \cup {dir}
  /\ UNCHANGED <<pred, aug, ctor, act, dense, net, data>>

\* NeuralNetwork::save returning Err because the save of one stage fails
SaveFault(i, dir, fault) ==
  /\ IsCascade(i)
  /\ FreeFor(i, dir)
  /\ Len(nodes[i].casc[1].past) < MaxPast
  /\ fault \in 1..(Len(nodes[i].casc) + 1)
  /\ LET r == RetrySaveFailing(nodes[i].casc, nodes[i].leaf, dir, disk, fault)
     IN /\ nodes' = [nodes EXCEPT ![i].casc = r.casc, ![i].leaf = r.leaf]
        /\ disk' = r.disk
        /\ last' = [Did("save", i, dir, fault, 0, r.log) EXCEPT !.failed = TRUE]
  /\ given' = given \cup {dir}
  /\ UNCHANGED <<pred, aug, ctor, act, dense, net, data>>

\* NeuralNetwork::set_internal
SetInternal(i) ==
  /\ IsCascade(i)
  /\ nodes' = [nodes EXCEPT ![i].casc = RetrySetInternal(@),
                            ![i].leaf = StageSetInternal(@)]
  /\ last' = Did("set_internal", i, NoPath, 0, 0, <<>>)
  /\ UNCHANGED <<disk, given, pred, aug, ctor, act, dense, net, data>>

\* NeuralNetwork::deallocate
Deallocate(i) ==
  /\ IsCascade(i)
  /\ disk' = RetryDeallocate(nodes[i].casc, nodes[i].leaf, disk)
  /\ last' = Did("deallocate", i, NoPath, 0, 0, <<>>)
  /\ UNCHANGED <<nodes, given, pred, aug, ctor, act, dense, net, data>>

\* retry_nn.rs:186-196 duplicate and 504-515 duplicate_trainable; the
\* expect() on a source directory that is not on disk ends the program
Duplicate(i, j) ==
  /\ IsCascade(i)
  /\ ~Live(j)
  /\ Exists(disk, nodes[i].casc[1].dir.path)
  /\ HasFree(disk, nodes[i].casc[1].dir.path)
  /\ LET new_model_directory == DuplicateDirectory(disk, nodes[i].casc[1].dir)
         copied == CopyDirRecursive(disk, nodes[i].casc[1].dir.path, new_model_directory)
         cloned_retry_nn == FromDisk(copied, new_model_directory)
     IN /\ ~cloned_retry_nn.panic
        /\ disk' = copied
        /\ nodes' = [nodes EXCEPT ![j] =
                       [kind |-> nodes[i].kind,
                        casc |-> RetrySetInternal(cloned_retry_nn.casc),
                        leaf |-> StageSetInternal(cloned_retry_nn.leaf)]]
        /\ last' = Did("duplicate", j, new_model_directory, 0, 0, <<>>)
  /\ UNCHANGED <<given, pred, aug, ctor, act, dense, net, data>>

\* retry_nn.rs:364-366: duplicate() of the NeuralNetwork interface on a
\* trainable cascade is unimplemented!(): the call panics and returns no
\* node
DuplicateUnimplemented(i, j) ==
  /\ IsCascade(i)
  /\ nodes[i].kind = "trainable"
  /\ ~Live(j)
  /\ last' = [Did("duplicate", j, NoPath, 0, 0, <<>>) EXCEPT !.failed = TRUE]
  /\ UNCHANGED <<nodes, disk, given, pred, aug, ctor, act, dense, net, data>>

\* TrainableNeuralNetwork::train
Train(i, count, env) ==
  /\ IsCascade(i)
  /\ nodes[i].kind = "trainable"
  /\ \A s \in Stages(nodes[i]) : s.w < MaxTrain
  /\ LET r == RetryTrain(nodes[i].casc, nodes[i].leaf, count, env, disk)
     IN /\ nodes' = [nodes EXCEPT ![i].casc = r.casc, ![i].leaf = r.leaf]
        /\ disk' = r.disk
        /\ last' = [Did("train", i, NoPath, count, r.ret, r.log) EXCEPT !.acc = r.acc]
  /\ UNCHANGED <<given, pred, aug, ctor, act, dense, net, data>>

\* a train_batch that trains the terminal stage as well
TrainBatchWholeChain(i, count) ==
  /\ IsCascade(i)
  /\ nodes[i].kind = "trainable"
  /\ \A s \in Stages(nodes[i]) : s.w < MaxTrain
  /\ nodes' = [nodes EXCEPT ![i].casc[1].primary = StageTrain(@, count),
                            ![i].leaf = StageTrain(@, count)]
  /\ last' = Did("train_batch", i, NoPath, count, 0, << <<"primary", count>> >>)
  /\ UNCHANGED <<disk, given, pred, aug, ctor, act, dense, net, data>>

\* retry_nn.rs:477-494 train_batch
TrainBatch(i, count) ==
  /\ IsCascade(i)
  /\ nodes[i].kind = "trainable"
  /\ \A s \in Stages(nodes[i]) : s.w < MaxTrain
  /\ nodes' = [nodes EXCEPT ![i].casc[1].primary = StageTrain(@, count)]
  /\ last' = Did("train_batch", i, NoPath, count, 0, << <<"primary", count>> >>)
  /\ UNCHANGED <<disk, given, pred, aug, ctor, act, dense, net, data>>

\* retry_nn.rs:145-147 and 323-325 predict: forward reads the stages and
\* assigns no field of the node
PredictOn(i, sigs) ==
  /\ IsCascade(i)
  /\ sigs \in [1..Len(nodes[i].casc) -> NestedSignals]
  /\ LET r == RetryForward(nodes[i].kind, nodes[i].casc, nodes[i].leaf, sigs, 1, <<>>)
     IN last' = [Did("predict", i, NoPath, 0, 0, r.ran) EXCEPT
                   !.sigs = sigs, !.out = r.out]
  /\ UNCHANGED <<nodes, disk, given, pred, aug, ctor, act, dense, net, data>>

\* the final release of node i, every file-system call succeeding
Teardown(i) ==
  /\ IsCascade(i)
  /\ LET r == RetryDrop(nodes[i].casc, nodes[i].leaf, Start(disk, 0))
     IN /\ disk' = r.disk
        /\ last' = [Did("teardown", i, NoPath, 0, 0, r.calls) EXCEPT
                      !.gone = Gone(disk, r.disk)]
  /\ nodes' = [nodes EXCEPT ![i] = NoNode]
  /\ UNCHANGED <<given, pred, aug, ctor, act, dense, net, data>>

\* the final release of node i, one create_dir_all / remove_dir_all failing
TeardownFault(i, fault) ==
  /\ IsCascade(i)
  /\ LET r == RetryDrop(nodes[i].casc, nodes[i].leaf, Start(disk, fault))
     IN /\ r.failed
        /\ disk' = r.disk
        /\ last' = [Did("teardown", i, NoPath, 0, 0, r.calls) EXCEPT
                      !.gone = Gone(disk, r.disk), !.failed = TRUE, !.at = r.at]
  /\ nodes' = [nodes EXCEPT ![i] = NoNode]
  /\ UNCHANGED <<given, pred, aug, ctor, act, dense, net, data>>

Envs == [kept : {FewExamples, MinExamples}, pa : Accuracies, la : Accuracies]

\* one node and the operations of its interface
Next ==
  \/ \E k \in Kinds, p \in RootPaths : New("N", k, MaxLifeLevels, p)
  \/ \E k \in Kinds, p \in RootPaths : Load("N", k, p)
  \/ \E p \in RootPaths : Save("N", p)
  \/ SetInternal("N")
  \/ Deallocate("N")
  \/ \E c \in TrainCounts, e \in Envs : Train("N", c, e)
  \/ \E c \in TrainCounts : TrainBatch("N", c)
  \/ Teardown("N")

Spec == LifeInit /\ [][Next]_vars

\* the same, a file-system call of a teardown failing
FaultNext ==
  \/ Next
  \/ \E f \in 1..MaxFsOps : TeardownFault("N", f)

SpecFault == LifeInit /\ [][FaultNext]_vars

\* one node that is built, saved and released, the save of a stage failing
SaveFaultNext ==
  \/ \E k \in Kinds, p \in RootPaths : New("N", k, MaxLifeLevels, p)
  \/ \E p \in RootPaths : Save("N", p)
  \/ Deallocate("N")
  \/ Teardown("N")
  \/ \E p \in RootPaths, f \in 1..(MaxLifeLevels + 2) : SaveFault("N", p, f)

SpecSaveFault == LifeInit /\ [][SaveFaultNext]_vars

\* a node of any depth that is built, saved, asked to predict and released
ServeNext ==
  \/ \E k \in Kinds, n \in 0..MaxLifeLevels : New("N", k, n, Root("m"))
  \/ \E p \in RootPaths : Save("N", p)
  \/ \E sigs \in UNION {[1..n -> NestedSignals] : n \in 1..(MaxLifeLevels + 1)} :
       PredictOn("N", sigs)
  \/ Teardown("N")

SpecServe == LifeInit /\ [][ServeNext]_vars

\* a node and its duplicate
DupNext ==
  \/ \E k \in Kinds : New("N", k, MaxLifeLevels, Root("m"))
  \/ \E p \in RootPaths : Save("N", p)
  \/ Deallocate("N")
  \/ Teardown("N")
  \/ Duplicate("N", "D")
  \/ \E p \in RootPaths : Save("D", p)
  \/ Deallocate("D")
  \/ \E c \in TrainCounts, e \in Envs : Train("D", c, e)
  \/ \E c \in TrainCounts : TrainBatch("D", c)
  \/ Teardown("D")

SpecDup == LifeInit /\ [][DupNext]_vars

\* a node and its duplicate, made through either interface
DupAnyNext ==
  \/ DupNext
  \/ DuplicateUnimplemented("N", "D")

SpecDupAny == LifeInit /\ [][DupAnyNext]_vars

(***************************************************************************)
(* Loading from a directory tree that the caller provides: any tree of     *)
(* plain directories and saved stages below one root.                      *)
(***************************************************************************)
LoadRoot == Root("u")

\* the shapes of the stages found on disk
LoadShapes == {LifeShape, AddInternalDimensions(LifeShape).shape}

\* what a directory may hold: nothing of a model, or a saved stage
Contents == {PlainDir} \cup {[w |-> 0, shape |-> sh] : sh \in LoadShapes}

\* the directories from_disk may look at
Candidates ==
  UNION {{BackupDir(LoadRoot, k), AppendDir(BackupDir(LoadRoot, k), "primary")} :
           k \in 0..MaxLoadDepth}

\* the directory trees: a directory exists only in an existing directory
LoadDisks ==
  {d \in UNION {[S -> Contents] : S \in SUBSET Candidates} :
     \A q \in DOMAIN d : Ancestors(q) \subseteq DOMAIN d}

LoadInit ==
  /\ nodes = [i \in Ids |-> NoNode]
  /\ disk \in LoadDisks
  /\ given = {}
  /\ last = Did("init", "N", NoPath, 0, 0, <<>>)
  /\ pred = Idle /\ aug = Idle /\ ctor = Idle
  /\ act = Idle
  /\ dense = Idle /\ net = Idle /\ data = Idle

\* from_disk on a tree with a stage that cannot be read: the unwrap() of
\* retry_nn.rs:74 / 88 (284 / 303) panics and no node is returned
LoadPanics(i, kind, dir) ==
  /\ ~Live(i)
  /\ FromDisk(disk, dir).panic
  /\ last' = [Did("load", i, dir, 0, 0, <<>>) EXCEPT !.failed = TRUE]
  /\ UNCHANGED <<nodes, disk, given, pred, aug, ctor, act, dense, net, data>>

LoadNext ==
  \/ \E k \in Kinds : Load("N", k, LoadRoot)
  \/ \E k \in Kinds : LoadPanics("N", k, LoadRoot)

SpecLoad == LoadInit /\ [][LoadNext]_vars

(***************************************************************************)
(* The ReLU activation (src/src/nn/activation/relu.rs).  Numbers are       *)
(* doubles that are multiples of one half, written in halves; the only     *)
(* operation on them is the comparison with 0.0, which is exact.           *)
(***************************************************************************)
ActValues == (-MaxMag)..MaxMag

ActVectors(n) == [1..n -> ActValues]

\* relu.rs:7-9 forward
ReLUForward(input) ==
  [i \in 1..Len(input) |-> IF input[i] > 0 THEN input[i] ELSE 0]

\* relu.rs:11-17 backward: the gradient zipped with self.forward of the
\* gradient
ReLUBackward(grad_output) ==
  [i \in 1..Len(grad_output) |->
     IF ReLUForward(grad_output)[i] > 0 THEN grad_output[i] ELSE 0]

\* a ReLU, the input of its forward pass and the gradient that comes back
ActInit ==
  /\ act \in UNION {
        {[phase |-> "new", input |-> x, grad_output |-> g,
          output |-> <<>>, grad_input |-> <<>>] :
           x \in ActVectors(n), g \in ActVectors(n)} : n \in 1..MaxVec}
  /\ pred = Idle /\ aug = Idle /\ ctor = Idle
  /\ nodes = Idle /\ disk = Idle /\ given = Idle /\ last = Idle
  /\ dense = Idle /\ net = Idle /\ data = Idle

ActForward ==
  /\ act.phase = "new"
  /\ act' = [act EXCEPT !.phase = "forwarded", !.output = ReLUForward(act.input)]
  /\ UNCHANGED <<pred, aug, ctor, nodes, disk, given, last, dense, net, data>>

ActBackward ==
  /\ act.phase = "forwarded"
  /\ act' = [act EXCEPT !.phase = "done",
                        !.grad_input = ReLUBackward(act.grad_output)]
  /\ UNCHANGED <<pred, aug, ctor, nodes, disk, given, last, dense, net, data>>

ActNext == ActForward \/ ActBackward

SpecReLU == ActInit /\ [][ActNext]_vars

\* retry_nn.rs:228-237 derive(Clone) on TrainableRetryNeuralNetwork: the
\* clone has the fields of the source, its model_directory and its
\* past_internal_model_directories included, and is released on its own
Clone(i, j) ==
  /\ IsCascade(i)
  /\ nodes[i].kind = "trainable"
  /\ ~Live(j)
  /\ nodes' = [nodes EXCEPT ![j] = nodes[i]]
  /\ last' = Did("clone", j, nodes[i].casc[1].dir.path, 0, 0, <<>>)
  /\ UNCHANGED <<disk, given, pred, aug, ctor, act, dense, net, data>>

\* a trainable node, its clone and its duplicate
CloneNext ==
  \/ \E p \in RootPaths : New("N", "trainable", MaxLifeLevels, p)
  \/ \E p \in RootPaths : Load("N", "trainable", p)
  \/ \E p \in RootPaths : Save("N", p)
  \/ Deallocate("N")
  \/ Teardown("N")
  \/ Clone("N", "D")
  \/ Duplicate("N", "D")
  \/ \E p \in RootPaths : Save("D", p)
  \/ Teardown("D")

SpecClone == LifeInit /\ [][CloneNext]_vars

(***************************************************************************)
(* save of a stage network (neuralnet.rs:493-524), one file-system call at *)
(* a time, each of which may fail.  net holds the model directory and its  *)
(* _backup sibling: whether each exists, the version of the weights its    *)
(* shape descriptor belongs to (0: no file) and the version in each layer  *)
(* file (0: no file, -1: a file cut short by a failed write).  version is  *)
(* the version of the network in memory, pc the next call of save.         *)
(***************************************************************************)
Absent(n) ==
  [exists |-> FALSE, shape |-> 0, layers_dir |-> FALSE, layers |-> [i \in 1..n |-> 0]]

\* std::fs::create_dir_all on a directory: kept as it is when it exists
CreateDir(c) == [c EXCEPT !.exists = TRUE]

\* a directory without entries: the only target rename can replace
IsEmptyDir(c) == c.exists /\ c.shape = 0 /\ ~c.layers_dir

\* a directory that holds the descriptor and every layer file of one version
IsComplete(c) ==
  /\ c.exists /\ c.shape > 0 /\ c.layers_dir
  /\ \A i \in 1..Len(c.layers) : c.layers[i] = c.shape

\* a save that removes the existing directory instead of moving it aside
MoveAsideRemoves(s) == [s EXCEPT !.dir = Absent(s.n)]

\* neuralnet.rs:507 std::fs::rename(&model_directory, &backup_directory)
MoveAside(s) == [s EXCEPT !.backup = s.dir, !.dir = Absent(s.n)]

\* the save has returned with the given result
Returned(s, res) == [s EXCEPT !.pc = "ready", !.res = res]

SaveInit ==
  /\ net \in {[pc |-> "ready", res |-> "none", n |-> n, version |-> 0, layer |-> 0,
               dir |-> Absent(n), backup |-> Absent(n)] :
                n \in 1..MaxLayers}
  /\ pred = Idle /\ aug = Idle /\ ctor = Idle /\ nodes = Idle
  /\ disk = Idle /\ given = Idle /\ last = Idle /\ act = Idle
  /\ dense = Idle /\ data = Idle

Others == <<pred, aug, ctor, nodes, disk, given, last, act, dense, data>>

\* a call of save on a network whose weights have changed since the last
SaveCall ==
  /\ net.pc = "ready"
  /\ net.version < MaxVersion
  /\ net' = [net EXCEPT !.pc = "metadata", !.res = "none", !.version = @ + 1,
                        !.layer = 0]
  /\ UNCHANGED Others

\* neuralnet.rs:505-508: the directory exists and is moved aside
SaveRename ==
  /\ net.pc = "metadata"
  /\ net.dir.exists
  /\ ~net.backup.exists \/ IsEmptyDir(net.backup)
  /\ net' = [MoveAside(net) EXCEPT !.pc = "create"]
  /\ UNCHANGED Others

\* neuralnet.rs:507: rename fails, as it must when _backup has entries
SaveRenameFails ==
  /\ net.pc = "metadata"
  /\ net.dir.exists
  /\ net' = Returned(net, "err")
  /\ UNCHANGED Others

\* neuralnet.rs:508 and 511 create_dir_all(&model_directory)
SaveCreateDir ==
  /\ \/ net.pc = "create"
     \/ net.pc = "metadata" /\ ~net.dir.exists
  /\ net' = [net EXCEPT !.pc = "shape", !.dir = CreateDir(@)]
  /\ UNCHANGED Others

SaveCreateDirFails ==
  /\ \/ net.pc = "create"
     \/ net.pc = "metadata" /\ ~net.dir.exists
  /\ net' = Returned(net, "err")
  /\ UNCHANGED Others

\* neuralnet.rs:514-515 shape.to_yaml: the descriptor is written
SaveToYaml ==
  /\ net.pc = "shape"
  /\ net' = [net EXCEPT !.pc = "layers", !.dir.shape = net.version]
  /\ UNCHANGED Others

\* to_yaml returns nothing: when it cannot write it panics
SaveToYamlPanics ==
  /\ net.pc = "shape"
  /\ net' = Returned(net, "panic")
  /\ UNCHANGED Others

\* neuralnet.rs:495 create_dir_all of the layers sub-directory
SaveLayersDir ==
  /\ net.pc = "layers"
  /\ net' = [net EXCEPT !.pc = "layer", !.layer = 1, !.dir.layers_dir = TRUE]
  /\ UNCHANGED Others

SaveLayersDirFails ==
  /\ net.pc = "layers"
  /\ net' = Returned(net, "err")
  /\ UNCHANGED Others

\* neuralnet.rs:496-498 layer.save of the next layer
SaveLayer ==
  /\ net.pc = "layer"
  /\ net' = [net EXCEPT !.dir.layers[net.layer] = net.version,
                        !.layer = @ + 1,
                        !.pc = IF net.layer = net.n THEN "cleanup" ELSE "layer"]
  /\ UNCHANGED Others

\* layer.save fails: the file is not there or is cut short
SaveLayerFails ==
  /\ net.pc = "layer"
  /\ \E left \in {0, -1} :
       net' = Returned([net EXCEPT !.dir.layers[net.layer] = left], "err")
  /\ UNCHANGED Others

\* neuralnet.rs:518-523: _backup, when it exists, is removed
SaveRemoveBackup ==
  /\ net.pc = "cleanup"
  /\ net' = Returned([net EXCEPT !.backup = Absent(net.n)], "ok")
  /\ UNCHANGED Others

\* neuralnet.rs:520 remove_dir_all fails, nothing or only the descriptor
\* having been removed
SaveRemoveBackupFails ==
  /\ net.pc = "cleanup"
  /\ net.backup.exists
  /\ \E shape \in {0, net.backup.shape} :
       net' = Returned([net EXCEPT !.backup.shape = shape], "err")
  /\ UNCHANGED Others

SaveNext ==
  \/ SaveCall
  \/ SaveRename
  \/ SaveRenameFails
  \/ SaveCreateDir
  \/ SaveCreateDirFails
  \/ SaveToYaml
  \/ SaveToYamlPanics
  \/ SaveLayersDir
  \/ SaveLayersDirFails
  \/ SaveLayer
  \/ SaveLayerFails
  \/ SaveRemoveBackup
  \/ SaveRemoveBackupFails

SpecSave == SaveInit /\ [][SaveNext]_vars

(***************************************************************************)
(* The dense layer (dense_layer.rs), by the sizes of its matrices and      *)
(* vectors.  A matrix is its pair of dimensions, a vector its length.      *)
(* fault is "index" once an operation has read or written outside one of   *)
(* them; declared is what the last new or resize was asked for.            *)
(***************************************************************************)
Sizes == 1..MaxSize

\* Matrix::new(rows, cols), dense_layer.rs:13 "output_size x input_size"
Matrix(rows, cols) == [rows |-> rows, cols |-> cols]

\* a loop over every (i, j) of matrix m stays inside matrix other
Inside(m, other) ==
  m.rows = 0 \/ m.cols = 0 \/ (m.rows <= other.rows /\ m.cols <= other.cols)

\* dense_layer.rs:27-45 new
DenseNew(input_size, output_size) ==
  [weights      |-> Matrix(output_size, input_size),
   biases       |-> output_size,
   input_cache  |-> 0,
   weight_grads |-> Matrix(output_size, input_size),
   bias_grads   |-> output_size,
   m_weights    |-> Matrix(output_size, input_size),
   v_weights    |-> Matrix(output_size, input_size),
   m_biases     |-> output_size,
   v_biases     |-> output_size,
   fault        |-> "none"]

\* dense_layer.rs:60-74 forward on an input of length n: the input is
\* cached, each row is zipped with the input, biases[row_idx] is read
DenseForward(l, n) ==
  [l EXCEPT !.input_cache = n,
            !.fault = IF l.weights.rows > l.biases THEN "index" ELSE "none"]

\* dense_layer.rs:80-100 backward on a gradient of length n
DenseBackward(l, n) ==
  LET grads == l.weight_grads
      w == l.weights
      ok == /\ grads.rows = 0 \/ grads.cols = 0
               \/ (grads.rows <= n /\ grads.cols <= l.input_cache)
            /\ w.rows = 0 \/ w.cols = 0
               \/ (w.rows <= n /\ w.cols <= l.input_cache)
  IN [l EXCEPT !.bias_grads = n,
               !.fault = IF ok THEN "none" ELSE "index"]

\* dense_layer.rs:105-117 update_weights
DenseUpdateWeights(l) ==
  [l EXCEPT !.fault = IF /\ Inside(l.weights, l.weight_grads)
                         /\ l.biases <= l.bias_grads
                      THEN "none" ELSE "index"]

\* dense_layer.rs:173-175 input_size
DenseInputSize(l) == l.input_cache

\* dense_layer.rs:177-179 output_size
DenseOutputSize(l) == l.weights.rows

\* dense_layer.rs:198-228 read of a file whose first line is "rows cols"
DenseRead(l, rows, cols) == [l EXCEPT !.weights = Matrix(rows, cols)]

\* dense_layer.rs:230-250 resize
DenseResize(l, input_size, output_size) ==
  [l EXCEPT !.weights = Matrix(output_size, input_size),
            !.biases = output_size,
            !.input_cache = input_size,
            !.weight_grads = Matrix(output_size, input_size),
            !.bias_grads = output_size]

\* dense_layer.rs:252-267 assign_weights: values are copied where both
\* layers have them, no size changes
DenseAssignWeights(l, other) == l

\* dense_layer.rs:277-319 adjust_adam
DenseAdjustAdam(l) ==
  [l EXCEPT !.fault = IF /\ Inside(l.weights, l.weight_grads)
                         /\ Inside(l.weights, l.m_weights)
                         /\ Inside(l.weights, l.v_weights)
                         /\ l.biases <= l.bias_grads
                         /\ l.biases <= l.m_biases
                         /\ l.biases <= l.v_biases
                      THEN "none" ELSE "index"]

DenseInit ==
  /\ dense = [phase |-> "none"]
  /\ pred = Idle /\ aug = Idle /\ ctor = Idle /\ nodes = Idle
  /\ disk = Idle /\ given = Idle /\ last = Idle /\ act = Idle
  /\ net = Idle /\ data = Idle

\* the layer after operation op on a vector of length arg (0 when op takes
\* none), with the sizes last asked for
Layer(l, op, arg, declared) ==
  [phase |-> "live", op |-> op, arg |-> arg, l |-> l, declared |-> declared]

Usable == dense.phase = "live" /\ dense.l.fault = "none"

LayerNew(i, o) ==
  /\ dense.phase = "none"
  /\ dense' = Layer(DenseNew(i, o), "new", 0, Matrix(o, i))
  /\ UNCHANGED <<pred, aug, ctor, nodes, disk, given, last, act, net, data>>

LayerForward(n) ==
  /\ Usable
  /\ dense' = Layer(DenseForward(dense.l, n), "forward", n, dense.declared)
  /\ UNCHANGED <<pred, aug, ctor, nodes, disk, given, last, act, net, data>>

LayerBackward(n) ==
  /\ Usable
  /\ dense' = Layer(DenseBackward(dense.l, n), "backward", n, dense.declared)
  /\ UNCHANGED <<pred, aug, ctor, nodes, disk, given, last, act, net, data>>

LayerUpdateWeights ==
  /\ Usable
  /\ dense' = Layer(DenseUpdateWeights(dense.l), "update_weights", 0,
                    dense.declared)
  /\ UNCHANGED <<pred, aug, ctor, nodes, disk, given, last, act, net, data>>

LayerAdjustAdam ==
  /\ Usable
  /\ dense' = Layer(DenseAdjustAdam(dense.l), "adjust_adam", 0, dense.declared)
  /\ UNCHANGED <<pred, aug, ctor, nodes, disk, given, last, act, net, data>>

LayerResize(i, o) ==
  /\ Usable
  /\ dense' = Layer(DenseResize(dense.l, i, o), "resize", 0, Matrix(o, i))
  /\ UNCHANGED <<pred, aug, ctor, nodes, disk, given, last, act, net, data>>

LayerRead(rows, cols) ==
  /\ Usable
  /\ dense' = Layer(DenseRead(dense.l, rows, cols), "read", 0, dense.declared)
  /\ UNCHANGED <<pred, aug, ctor, nodes, disk, given, last, act, net, data>>

LayerAssignWeights(i, o) ==
  /\ Usable
  /\ dense' = Layer(DenseAssignWeights(dense.l, DenseNew(i, o)),
                    "assign_weights", 0, dense.declared)
  /\ UNCHANGED <<pred, aug, ctor, nodes, disk, given, last, act, net, data>>

\* any call of the layer's interface, on vectors and files of any size
DenseNext ==
  \/ \E i \in Sizes, o \in Sizes : LayerNew(i, o)
  \/ \E n \in Sizes : LayerForward(n)
  \/ \E n \in Sizes : LayerBackward(n)
  \/ LayerUpdateWeights
  \/ LayerAdjustAdam
  \/ \E i \in Sizes, o \in Sizes : LayerResize(i, o)
  \/ \E rows \in Sizes, cols \in Sizes : LayerRead(rows, cols)
  \/ \E i \in Sizes, o \in Sizes : LayerAssignWeights(i, o)

SpecDense == DenseInit /\ [][DenseNext]_vars

(***************************************************************************)
(* train of a stage network (neuralnet.rs:285-410) on examples 1..n.       *)
(* validation_split is given in quarters, which a double holds exactly, so *)
(* that n * validation_split is exact; log lists, in order, the examples   *)
(* that led to a weight update and those that were only evaluated.         *)
(***************************************************************************)
\* f64::round of num / 4 for num >= 0: halves go away from zero
RoundQuarters(num) == (2 * num + 4) \div 8

\* neuralnet.rs:303 split_index
SplitIndex(n, validation_split) == RoundQuarters(n * validation_split)

\* neuralnet.rs:322-369 the training loop and 375-395 the validation loop
\* of one epoch
EpochLog(n, split_index) ==
  [j \in 1..split_index |-> <<"update", j>>]
    \o [k \in 1..(n - split_index) |-> <<"validate", split_index + k>>]

RECURSIVE Epochs(_, _)
Epochs(epochs, log) == IF epochs = 0 THEN <<>> ELSE log \o Epochs(epochs - 1, log)

\* neuralnet.rs:288-410 train
NetworkTrain(n, validation_split, epochs) ==
  IF validation_split < 0 \/ validation_split > 4
  THEN [panic |-> TRUE, log |-> <<>>]
  ELSE [panic |-> FALSE,
        log |-> Epochs(epochs, EpochLog(n, SplitIndex(n, validation_split)))]

SplitInit ==
  /\ net \in [phase : {"called"}, n : 0..MaxExamples,
               validation_split : (-1)..5, epochs : 0..MaxEpochs]
  /\ pred = Idle /\ aug = Idle /\ ctor = Idle /\ nodes = Idle
  /\ disk = Idle /\ given = Idle /\ last = Idle /\ act = Idle
  /\ dense = Idle /\ data = Idle

TrainSplit ==
  /\ net.phase = "called"
  /\ LET r == NetworkTrain(net.n, net.validation_split, net.epochs)
     IN net' = [phase |-> "done", n |-> net.n,
                validation_split |-> net.validation_split,
                epochs |-> net.epochs, panic |-> r.panic, log |-> r.log]
  /\ UNCHANGED <<pred, aug, ctor, nodes, disk, given, last, act, dense, data>>

SplitNext == TrainSplit

SpecSplit == SplitInit /\ [][SplitNext]_vars

(***************************************************************************)
(* train of a cascade node on a data set (retry_nn.rs:374-475), example by *)
(* example.  Values are in hundredths, as are the labels.  What a trained  *)
(* stage predicts for an input is given by a function: probe for the       *)
(* temporary stage, primary for primary_nn.  An input is a one-element     *)
(* vector holding the number of its kind.                                  *)
(***************************************************************************)
\* retry_nn.rs:410-418 and 446-454: zip stops at the shorter of the two
NbCorrectOutputs(prediction, target, tolerance) ==
  Cardinality({k \in 1..Min(Len(prediction), Len(target)) :
                 Abs(prediction[k] - target[k]) < tolerance})

\* labels that are 1.0 where the probe was right
AugmentTargetsInverted(inputs, targets, probe, tolerance) ==
  [i \in 1..Min(Len(inputs), Len(targets)) |->
     LET target == targets[i]
         prediction == probe[inputs[i][1]]
         nb_correct_outputs == NbCorrectOutputs(prediction, target, tolerance)
     IN IF nb_correct_outputs = Len(target)
        THEN Append(target, WrongLabel)
        ELSE Append(target, RightLabel)]

\* retry_nn.rs:403-426 primary_targets
AugmentTargets(inputs, targets, probe, tolerance) ==
  [i \in 1..Min(Len(inputs), Len(targets)) |->
     LET target == targets[i]
         prediction == probe[inputs[i][1]]
         nb_correct_outputs == NbCorrectOutputs(prediction, target, tolerance)
     IN IF nb_correct_outputs = Len(target)
        THEN Append(target, RightLabel)
        ELSE Append(target, WrongLabel)]

\* a filter that keeps the examples the primary got wrong
KeptIndicesWrong(primary_inputs, primary_targets, primary, tolerance) ==
  LET n == Min(Len(primary_inputs), Len(primary_targets))
      Passes(k) ==
        LET target == primary_targets[k]
            prediction == primary[primary_inputs[k][1]]
        IN NbCorrectOutputs(prediction, target, tolerance) # Len(target)
  IN SelectSeq([k \in 1..n |-> k], Passes)

\* retry_nn.rs:439-456: the positions that pass the filter, in order
KeptIndices(primary_inputs, primary_targets, primary, tolerance) ==
  LET n == Min(Len(primary_inputs), Len(primary_targets))
      Passes(k) ==
        LET target == primary_targets[k]
            prediction == primary[primary_inputs[k][1]]
        IN NbCorrectOutputs(prediction, target, tolerance) = Len(target)
  IN SelectSeq([k \in 1..n |-> k], Passes)

\* retry_nn.rs:457-461: t.remove(t.len() - 1)
RemoveLast(t) == SubSeq(t, 1, Len(t) - 1)

\* retry_nn.rs:374-475 train of the node self, whose backup is a stage.
\* calls lists the calls made to the stages, in order.
RetryTrainData(self, inputs, targets, tolerance, probe, primary) ==
  IF TooFew(Len(inputs))
  THEN [trained |-> FALSE, calls |-> <<>>]
  ELSE LET temp_neural_network ==
             NewStage(self.shape, AppendDir(self.dir.path, "temp_primary"))
           n == Min(Len(inputs), Len(targets))
           primary_inputs == [i \in 1..n |-> inputs[i]]
           primary_targets == AugmentTargets(inputs, targets, probe, tolerance)
           kept == KeptIndices(primary_inputs, primary_targets, primary, tolerance)
           backup_inputs == [j \in 1..Len(kept) |-> primary_inputs[kept[j]]]
           backup_targets ==
             [j \in 1..Len(kept) |-> RemoveLast(primary_targets[kept[j]])]
       IN [trained |-> TRUE,
           calls |->
             << <<"temp_primary", "train">> >>
               \o [i \in 1..n |-> <<"temp_primary", "predict">>]
               \o << <<"primary", "train">> >>
               \o [i \in 1..n |-> <<"primary", "predict">>]
               \o << <<"backup", "train">> >>,
           temp_neural_network |-> temp_neural_network,
           temp_inputs |-> inputs,
           temp_targets |-> targets,
           primary_inputs |-> primary_inputs,
           primary_targets |-> primary_targets,
           backup_inputs |-> backup_inputs,
           backup_targets |-> backup_targets]

\* target values; what the probe may predict (right, just inside the
\* tolerance of 0, and exactly the tolerance away from both target values);
\* what the primary may predict for an answer channel and for the label
\* channel (near 0.0, near 1.0)
TargetValues == {0, 2 * Tolerance}

ProbeValues == {0, Tolerance - 1, Tolerance}

AnswerValues == {Tolerance - 1, Tolerance}

LabelValues == {RightLabel, WrongLabel - Tolerance + 1}

\* a data set of n examples that repeats the given kinds of example in turn
Repeat(kinds, n) == [i \in 1..n |-> kinds[((i - 1) % Len(kinds)) + 1]]

\* the one-layer shape with the given output width
DataShape(width) == <<[input |-> 1, output |-> width, activation |-> "ReLU"]>>

DataInit ==
  /\ \E width \in 1..MaxCells, kinds \in 1..MaxCells :
       /\ width * kinds <= MaxCells
       /\ \E n \in {MinExamples - 1, MinExamples},
             t \in [1..kinds -> [1..width -> TargetValues]],
             probe \in [1..kinds -> [1..width -> ProbeValues]],
             answer \in [1..kinds -> [1..width -> AnswerValues]],
             label \in [1..kinds -> LabelValues] :
            data = [phase     |-> "called",
                    self      |-> NewCascadeNode(DataShape(width), Root("m")),
                    inputs    |-> Repeat([k \in 1..kinds |-> <<k>>], n),
                    targets   |-> Repeat(t, n),
                    tolerance |-> Tolerance,
                    probe     |-> probe,
                    primary   |-> [k \in 1..kinds |-> Append(answer[k], label[k])]]
  /\ pred = Idle /\ aug = Idle /\ ctor = Idle /\ nodes = Idle
  /\ disk = Idle /\ given = Idle /\ last = Idle /\ act = Idle
  /\ dense = Idle /\ net = Idle

TrainData ==
  /\ data.phase = "called"
  /\ data' = [phase |-> "done", call |-> data,
              r |-> RetryTrainData(data.self, data.inputs, data.targets,
                                   data.tolerance, data.probe, data.primary)]
  /\ UNCHANGED <<pred, aug, ctor, nodes, disk, given, last, act, dense, net>>

DataNext == TrainData

SpecData == DataInit /\ [][DataNext]_vars

(***************************************************************************)
(* Batched training (neuralnet.rs train_batch, dense_layer.rs              *)
(* forward_batch / backward_batch / update_weights), with values.  net is  *)
(* the call: its arguments, the one-layer network it trains and the        *)
(* position of its three nested loops.                                     *)
(***************************************************************************)

RECURSIVE Dot(_, _, _)
\* dense_layer.rs:138-140: the inner loop over the first n columns
Dot(row, input, n) ==
  IF n = 0 THEN 0 ELSE Dot(row, input, n - 1) + row[n] * input[n]

\* dense_layer.rs:120-145 forward_batch: pushes the input on
\* input_batch_cache, leaves input_cache alone
ForwardBatch(l, input) ==
  LET pushed == [l EXCEPT !.input_batch_cache = Append(@, input)]
  IN  IF Len(l.weights) # Len(l.biases) \/ Len(l.weights[1]) # Len(input)
      THEN [fault |-> "assert", layer |-> pushed, output |-> <<>>]
      ELSE [fault |-> "none", layer |-> pushed,
            output |-> [i \in 1..Len(l.biases) |->
                          l.biases[i] + Dot(l.weights[i], input, Len(input))]]

\* dense_layer.rs:148-171 backward_batch: grad_input has the length of
\* input_cache and is indexed by the columns of the weights, so the first
\* column beyond input_cache panics, after its weight gradient was added;
\* the gradients are added to weight_grads and bias_grads
BackwardBatch(l, grad_output) ==
  LET last_input_cache == l.input_batch_cache[Len(l.input_batch_cache)]
      num_cols == Len(l.weights[1])
  IN  IF Len(l.weights) # Len(l.biases) \/ num_cols # Len(last_input_cache)
      THEN [fault |-> "assert", layer |-> l]
      ELSE IF Len(l.input_cache) < num_cols
      THEN [fault |-> "index",
            layer |-> [l EXCEPT
              !.weight_grads[1] = [j \in 1..num_cols |->
                 IF j <= Len(l.input_cache) + 1
                 THEN @[j] + grad_output[1] * last_input_cache[j]
                 ELSE @[j]]]]
      ELSE [fault |-> "none",
            layer |-> [l EXCEPT
              !.weight_grads = [i \in 1..Len(l.weights) |->
                 [j \in 1..num_cols |->
                    @[i][j] + grad_output[i] * last_input_cache[j]]],
              !.bias_grads = [i \in 1..Len(l.biases) |->
                 @[i] + grad_output[i]]]]

\* dense_layer.rs:105-117 update_weights: the accumulators are read, never
\* cleared
UpdateWeights(l, learning_rate) ==
  [l EXCEPT
     !.weights = [i \in 1..Len(l.weights) |->
        [j \in 1..Len(l.weights[i]) |->
           @[i][j] - learning_rate * l.weight_grads[i][j]]],
     !.biases = [i \in 1..Len(l.biases) |->
        @[i] - learning_rate * l.bias_grads[i]]]

\* dense_layer.rs:28-39 new, for one input and one output with the weight
\* and bias drawn; predicted says whether a forward pass (predict) has
\* filled input_cache since
BatchLayer(weight, bias, predicted) ==
  [weights |-> <<<<weight>>>>, biases |-> <<bias>>,
   weight_grads |-> <<<<0>>>>, bias_grads |-> <<0>>,
   input_cache |-> IF predicted THEN <<1>> ELSE <<>>,
   input_batch_cache |-> <<>>]

\* neuralnet.rs:438-451: what one example does to the network: forward_batch
\* (248-255), the gradient of the squared error, backward_batch (272-283)
BatchExampleStep(l, input, target, tolerance) ==
  LET f == ForwardBatch(l, input)
      output == ReLUForward(f.output)
      grad_output == [j \in 1..Len(output) |-> 2 * (output[j] - target[j])]
      b == BackwardBatch(f.layer, ReLUBackward(grad_output))
  IN  IF f.fault # "none"
      THEN [fault |-> f.fault, layer |-> f.layer, correct |-> 0]
      ELSE [fault |-> b.fault, layer |-> b.layer,
            correct |-> NbCorrectOutputs(output, target, tolerance)]

BatchDataSets ==
  UNION {[1..n -> [input : {<<1>>, <<2>>}, target : {<<0>>, <<1>>}]] :
           n \in 0..MaxBatch}

BatchInit ==
  /\ pred = Idle /\ aug = Idle /\ ctor = Idle /\ nodes = Idle
  /\ disk = Idle /\ given = Idle /\ last = Idle /\ act = Idle
  /\ dense = Idle /\ data = Idle
  /\ \E examples \in BatchDataSets, epochs \in 0..MaxEpochs,
        batch_size \in 0..MaxBatch, weight \in {0, 1},
        predicted \in BOOLEAN :
       net = [pc |-> "called", examples |-> examples, epochs |-> epochs,
              batch_size |-> batch_size, learning_rate |-> 1,
              tolerance |-> 1,
              layer |-> BatchLayer(weight, 0, predicted),
              i |-> 0, k |-> 1, in_batch |-> 0, success_count |-> 0,
              updates |-> 0]

\* neuralnet.rs:422-426: the epoch loop is entered; chunks(0) panics
TrainBatchEpoch ==
  /\ net.pc \in {"called", "epoch"}
  /\ net' = IF net.i >= net.epochs THEN [net EXCEPT !.pc = "done"]
            ELSE IF net.batch_size = 0 THEN [net EXCEPT !.pc = "panic"]
            ELSE [net EXCEPT !.pc = "batch", !.k = 1, !.in_batch = 0,
                             !.success_count = 0]
  /\ UNCHANGED Others

\* neuralnet.rs:430-451: the next example of the current chunk
TrainBatchExample ==
  /\ net.pc = "batch"
  /\ net.k <= Len(net.examples)
  /\ net.in_batch < net.batch_size
  /\ LET e == net.examples[net.k]
         s == BatchExampleStep(net.layer, e.input, e.target, net.tolerance)
     IN  net' = IF s.fault # "none"
                THEN [net EXCEPT !.pc = "panic", !.layer = s.layer]
                ELSE [net EXCEPT !.layer = s.layer, !.k = @ + 1,
                                 !.in_batch = @ + 1,
                                 !.success_count = @ + s.correct]
  /\ UNCHANGED Others

\* neuralnet.rs:452-454: the chunk is through, every layer updates its
\* weights
TrainBatchUpdate ==
  /\ net.pc = "batch"
  /\ net.in_batch > 0
  /\ net.in_batch = net.batch_size \/ net.k > Len(net.examples)
  /\ net' = [net EXCEPT !.layer = UpdateWeights(@, net.learning_rate),
                        !.in_batch = 0, !.updates = @ + 1]
  /\ UNCHANGED Others

\* neuralnet.rs:456-465: the epoch's accuracy, success_count / n * 100; the
\* loop breaks when it is under 0.01 after EarlyStop epochs
TrainBatchEpochEnd ==
  /\ net.pc = "batch"
  /\ net.in_batch = 0
  /\ net.k > Len(net.examples)
  /\ net' = IF /\ Len(net.examples) > 0
               /\ net.success_count * 10000 < Len(net.examples)
               /\ net.i > EarlyStop
            THEN [net EXCEPT !.pc = "done", !.i = @ + 1]
            ELSE [net EXCEPT !.pc = "epoch", !.i = @ + 1]
  /\ UNCHANGED Others

BatchNext ==
  \/ TrainBatchEpoch
  \/ TrainBatchExample
  \/ TrainBatchUpdate
  \/ TrainBatchEpochEnd

SpecBatch == BatchInit /\ [][BatchNext]_vars

(***************************************************************************)
(*                              The claims                                 *)
(***************************************************************************)

\* the backup of the root node has been asked to predict
BackupConsulted == Len(pred.ran) > 1

\* what backup.predict(input) answers for the root node
BackupAnswer ==
  IF Len(pred.sigs) > 1 THEN Forward(pred, 2, <<>>).out ELSE LeafOutput(pred)

\* the primary output with its last element removed
TruncatedPrimary == [k \in 1..pred.width |-> PrimaryOutput(pred, 1)[k]]

RootSignal == pred.sigs[1]

InferenceDone == pred.phase = "done" /\ pred.kind = "inference"

BackupChain(node) == Tail(node.casc) \o <<node.leaf>>

\* C2: new(shape, levels = n), n >= 0, gives a root from which following
\* backups reaches exactly n + 1 stages; all but the last are cascade nodes
\* (with a primary of the augmented shape), the last is a plain network of
\* the un-augmented shape with no backup; counting the root there are n + 1
\* cascade nodes.
C2_DepthGivesStages ==
  (ctor.phase = "done" /\ ctor.levels >= 0) =>
    /\ ~ctor.panic
    /\ Len(BackupChain(ctor.node)) = ctor.levels + 1
    /\ Len(ctor.node.casc) = ctor.levels + 1
    /\ \A i \in 1..Len(ctor.node.casc) :
          /\ ctor.node.casc[i].shape = ctor.shape
          /\ ctor.node.casc[i].primary.shape = AddInternalDimensions(ctor.shape).shape
          /\ ctor.node.casc[i].dir = Internal(BackupDir(Root("m"), i - 1))
    /\ ctor.node.leaf.shape = ctor.shape
    /\ DOMAIN ctor.node.leaf = {"shape", "dir", "w"}
    /\ ctor.node.leaf.dir = Internal(BackupDir(Root("m"), ctor.levels + 1))

\* a cascade of the deepest level has been built
C2_Witness ==
  ctor.phase = "done" /\ ctor.levels = MaxLevels /\ ~ctor.panic
    /\ Len(ctor.node.casc) = MaxLevels + 1

\* C6: for a valid shape S of L >= 1 layers the augmented shape has L layers,
\* layer 0 keeps its input width and has output width S[0].output + 1, every
\* later layer has input and output width one more than in S, activations
\* are unchanged; so the augmented shape is valid and its final output width
\* less one is S's output width.
C6_AugmentedShape ==
  (aug.phase = "done" /\ aug.shape # <<>> /\ IsValid(aug.shape)) =>
    LET S == aug.shape
        A == aug.result
        L == Len(S)
    IN /\ ~aug.panic
       /\ Len(A) = L
       /\ A[1].input = S[1].input
       /\ A[1].output = S[1].output + 1
       /\ \A i \in 2..L :
             A[i].input = S[i].input + 1 /\ A[i].output = S[i].output + 1
       /\ \A i \in 1..L : A[i].activation = S[i].activation
       /\ IsValid(A)
       /\ A[L].output - 1 = S[L].output

\* a valid shape of several layers has been augmented
C6_Witness ==
  aug.phase = "done" /\ Len(aug.shape) >= 2 /\ IsValid(aug.shape)
    /\ Len(aug.result) = Len(aug.shape)

\* the step is operation op applied to node i
Step(op, i) == last'.op = op /\ last'.id = i

\* nothing lies at or below p on disk e
TreeGone(e, p) == \A q \in DOMAIN e : ~Under(q, p)

\* what lies at or below p is the same on disks d and e
TreeSame(d, e, p) ==
  /\ \A q \in DOMAIN d : Under(q, p) => (q \in DOMAIN e /\ e[q] = d[q])
  /\ \A q \in DOMAIN e : Under(q, p) => q \in DOMAIN d

\* the stage's in-memory state is what its directory holds on disk d
Flushed(d, stage) ==
  /\ Exists(d, stage.dir.path)
  /\ d[stage.dir.path] = [w |-> stage.w, shape |-> stage.shape]

\* C3: train on a trainable cascade with fewer than 100 examples returns 0.0
\* and does nothing: no probe is created or trained, no stage of the chain
\* is trained, the node's location, historical set and weights and the disk
\* are as before.  With 100 examples or more the probe and the primary are
\* trained.
C3_FewExamplesNoOp ==
  [][\A i \in Ids : Step("train", i) =>
       /\ last'.count < MinExamples =>
            /\ last'.ret = 0
            /\ last'.log = <<>>
            /\ nodes' = nodes
            /\ disk' = disk
       /\ last'.count >= MinExamples =>
            /\ Len(last'.log) >= 2
            /\ last'.log[1] = <<"probe", last'.count>>
            /\ last'.log[2] = <<"primary", last'.count>>
            /\ nodes'[i].casc[1].primary.w = nodes[i].casc[1].primary.w + 1
            /\ nodes'[i].casc[1].dir = nodes[i].casc[1].dir
            /\ nodes'[i].casc[1].past = nodes[i].casc[1].past]_vars

\* train has been called with 50 examples on a node and has returned 0
C3_Witness ==
  /\ last.op = "train"
  /\ last.count = FewExamples
  /\ last.ret = 0
  /\ last.log = <<>>
  /\ IsCascade(last.id)

\* a save of node i that was scratch at a path other than the target
ScratchSave(i) ==
  /\ Step("save", i)
  /\ nodes[i].casc[1].dir.tag = "Internal"
  /\ nodes[i].casc[1].dir.path # last'.path

SavedTo(d, p) ==
  /\ Exists(d, p)
  /\ Exists(d, AppendDir(p, "primary"))
  /\ Exists(d, AppendDir(p, "backup"))

RemovesOnlyOwn(i) ==
  \A q \in DOMAIN disk : q \notin DOMAIN disk' =>
    \/ Under(q, nodes[i].casc[1].dir.path)
    \/ \E k \in 1..Len(nodes[i].casc[1].past) : Under(q, nodes[i].casc[1].past[k])

PersistedKept(i) ==
  nodes[i].casc[1].dir.tag = "User" =>
    /\ Exists(disk', nodes[i].casc[1].dir.path)
    /\ \A s \in Stages(nodes[i]) :
         Under(s.dir.path, nodes[i].casc[1].dir.path) /\ Flushed(disk', s)

RemovesOnlyScratch(i) ==
  \A q \in DOMAIN disk : q \notin DOMAIN disk' =>
    \/ \E s \in Stages(nodes[i]) : s.dir.tag = "Internal" /\ Under(q, s.dir.path)
    \/ \E k \in 1..Len(nodes[i].casc) :
         LET c == nodes[i].casc[k]
         IN \/ c.dir.tag = "Internal" /\ Under(q, c.dir.path)
            \/ \E h \in 1..Len(c.past) : c.past[h] # c.dir.path /\ Under(q, c.past[h])

\* p is the location of a scratch node of the chain of node i, or a
\* historical path of a node of the chain other than that node's location
ScratchOf(i, p) ==
  \E k \in 1..Len(nodes[i].casc) :
    LET c == nodes[i].casc[k]
    IN \/ c.dir.tag = "Internal" /\ p = c.dir.path
       \/ \E h \in 1..Len(c.past) : c.past[h] = p /\ p # c.dir.path

C9_TeardownBestEffort ==
  [][\A i \in Ids : (Step("teardown", i) /\ last'.failed) =>
       \A k \in 1..Len(nodes[i].casc) :
         LET c == nodes[i].casc[k]
         IN /\ (c.dir.tag = "Internal" /\ ~Under(c.dir.path, last'.at))
                 => TreeGone(disk', c.dir.path)
            /\ \A h \in 1..Len(c.past) :
                 (c.past[h] # c.dir.path /\ ~Under(c.past[h], last'.at))
                   => TreeGone(disk', c.past[h])]_vars

\* the removal of a scratch node's directory has failed in a teardown while
\* a historical path of the node was on disk
C9_Witness ==
  /\ last.op = "teardown"
  /\ last.failed
  /\ last.at = last.was.path
  /\ last.past # <<>>
  /\ Exists(disk, last.past[1])

\* C10: save(newPath) appends the location of every chain node that was
\* scratch to its historical set and leaves the set of a persisted one as it
\* was; every chain node becomes persisted at the matching sub-path of
\* newPath; the primary is written under <path>/primary and then the backup
\* under <path>/backup, recursively, the terminal stage last; the weights
\* written are those in memory.
C10_SaveRelocatesChain ==
  [][\A i \in Ids : Step("save", i) =>
       LET p == last'.path
           pre == nodes[i]
           post == nodes'[i]
           L == Len(pre.casc)
       IN /\ Len(post.casc) = L
          /\ \A k \in 1..L :
               LET dir == BackupDir(p, k - 1)
               IN /\ post.casc[k].past =
                       IF pre.casc[k].dir.tag = "Internal"
                       THEN Append(pre.casc[k].past, pre.casc[k].dir.path)
                       ELSE pre.casc[k].past
                  /\ post.casc[k].dir = User(dir)
                  /\ post.casc[k].primary =
                       [pre.casc[k].primary EXCEPT !.dir = User(AppendDir(dir, "primary"))]
                  /\ Flushed(disk', post.casc[k].primary)
                  /\ last'.log[k] = AppendDir(dir, "primary")
          /\ post.leaf = [pre.leaf EXCEPT !.dir = User(BackupDir(p, L))]
          /\ Flushed(disk', post.leaf)
          /\ Len(last'.log) = L + 1
          /\ last'.log[L + 1] = BackupDir(p, L)]_vars

\* a scratch cascade with a nested backup has been saved
C10_Witness ==
  /\ last.op = "save"
  /\ last.was.tag = "Internal"
  /\ IsCascade(last.id)
  /\ Len(nodes[last.id].casc) >= 2
  /\ nodes[last.id].casc[2].dir = User(AppendDir(last.path, "backup"))
  /\ nodes[last.id].casc[2].past # <<>>

\* the tree under `to` on disk e is a deep copy of the tree under `from` on
\* disk d
DeepCopy(d, e, from, to) ==
  /\ \A q \in DOMAIN d : Under(q, from) =>
        (Exists(e, Rebase(q, from, to)) /\ e[Rebase(q, from, to)] = d[q])
  /\ \A q \in DOMAIN e : Under(q, to) =>
        \E r \in DOMAIN d : Under(r, from) /\ Rebase(r, from, to) = q

\* p is the first sibling of path, by numeric suffix, that is not on disk d
FirstUnusedSibling(d, path, p) ==
  \E k \in 1..MaxCopies :
    /\ p = Sibling(path, k)
    /\ ~Exists(d, p)
    /\ \A n \in 1..(k - 1) : Exists(d, Sibling(path, n))

\* the step has returned node j as the duplicate of node i that the claim
\* describes
DuplicateAsClaimed(i, j) ==
  LET source == nodes[i].casc[1].dir.path
      copy == nodes'[j]
  IN /\ ~last'.failed
     /\ copy.kind = nodes[i].kind
     /\ copy.casc # <<>>
     /\ copy.casc[1].dir.path = last'.path
     /\ FirstUnusedSibling(disk, source, last'.path)
     /\ last'.path # source
     /\ DeepCopy(disk, disk', source, last'.path)
     /\ \A k \in 1..Len(copy.casc) : copy.casc[k].dir.tag = "Internal"
     /\ \A st \in Stages(copy) : st.dir.tag = "Internal"
     /\ nodes'[i] = nodes[i]

\* C11: duplicate() on a cascade node, inference or trainable, returns a new
\* node whose path is the first unused sibling path of the source's (it was
\* not on disk before and differs from the source's), whose directory is a
\* deep copy of the source's directory tree and whose location is scratch
\* for the root and every stage below it; the source is unchanged.
C11_DuplicateYieldsScratchCopy ==
  [][Step("duplicate", "D") => DuplicateAsClaimed("N", "D")]_vars

\* duplicate() has been called on a trainable cascade that is on disk and
\* has returned no node
C11_Witness ==
  /\ last.op = "duplicate"
  /\ last.failed
  /\ ~Live("D")
  /\ nodes["N"].kind = "trainable"
  /\ SavedTo(disk, nodes["N"].casc[1].dir.path)

\* what the claim describes holds of duplicate() on an inference cascade and
\* of duplicate_trainable() on a trainable one
DuplicateWhereImplemented ==
  [][(Step("duplicate", "D") /\ ~last'.failed) => DuplicateAsClaimed("N", "D")]_vars

\* the stage was read from directory p of disk d
ReadFrom(d, stage, p) ==
  /\ Exists(d, p)
  /\ d[p].w >= 0
  /\ stage.dir.path = p
  /\ stage.shape = d[p].shape
  /\ stage.w = d[p].w

\* the number of nested directories of disk d that hold a primary sub-path,
\* starting at p
RECURSIVE PrimaryDepth(_, _)
PrimaryDepth(d, p) ==
  IF Exists(d, AppendDir(p, "primary"))
  THEN 1 + PrimaryDepth(d, AppendDir(p, "backup"))
  ELSE 0

\* C12: load(path) returns a cascade node if and only if path has a
\* 'primary' sub-path and otherwise a leaf read from path itself; a cascade
\* has its primary read from path/primary and its backup loaded in the same
\* way from path/backup, so that the chain ends, after as many cascade nodes
\* as there are nested directories with a 'primary', at a leaf; every
\* cascade node is persisted at its path with an empty historical set.  A
\* load returns no node exactly when a stage directory on that chain holds
\* no saved stage.
C12_LoadDiscriminates ==
  [][Step("load", "N") =>
       LET p == last'.path
           n == nodes'["N"]
           depth == PrimaryDepth(disk, p)
           unreadable ==
             \/ \E k \in 1..depth :
                   disk[AppendDir(BackupDir(p, k - 1), "primary")].w < 0
             \/ ~Exists(disk, BackupDir(p, depth))
             \/ disk[BackupDir(p, depth)].w < 0
       IN /\ last'.failed <=> unreadable
          /\ last'.failed => nodes' = nodes
          /\ ~last'.failed =>
               /\ (n.casc # <<>>) <=> Exists(disk, AppendDir(p, "primary"))
               /\ Len(n.casc) = depth
               /\ \A k \in 1..depth :
                    /\ n.casc[k].dir = User(BackupDir(p, k - 1))
                    /\ n.casc[k].past = <<>>
                    /\ ReadFrom(disk, n.casc[k].primary,
                                AppendDir(BackupDir(p, k - 1), "primary"))
               /\ ReadFrom(disk, n.leaf, BackupDir(p, depth))
               /\ disk' = disk]_vars

\* a directory with a primary, whose backup has a primary too, has been
\* loaded as a cascade of two nodes and a leaf
C12_Witness ==
  /\ last.op = "load"
  /\ ~last.failed
  /\ Len(nodes["N"].casc) = 2
  /\ nodes["N"].casc[2].dir = User(AppendDir(last.path, "backup"))
  /\ nodes["N"].leaf.dir.path = BackupDir(last.path, 2)

\* the stages on the chain below p are saved stages, and the shape stored
\* for some primary is not the augmented form of the shape of the leaf that
\* ends the chain, which is the shape its cascade node shows
ShapeMismatch(d, p) ==
  LET depth == PrimaryDepth(d, p)
      leaf == BackupDir(p, depth)
  IN /\ depth >= 1
     /\ Exists(d, leaf) /\ d[leaf].w >= 0
     /\ \A k \in 1..depth : d[AppendDir(BackupDir(p, k - 1), "primary")].w >= 0
     /\ \E k \in 1..depth :
          d[AppendDir(BackupDir(p, k - 1), "primary")].shape
            # AddInternalDimensions(d[leaf].shape).shape

\* C14: loading a cascade fails fast on a shape mismatch: when the shape
\* stored for a primary is not the augmented form of the shape that its
\* cascade node takes from its backup, load returns no node.
C14_LoadRejectsMismatch ==
  [][(Step("load", "N") /\ ShapeMismatch(disk, last'.path)) =>
       (last'.failed /\ ~Live("N")')]_vars

\* a tree whose primary holds the un-augmented shape of its backup has been
\* loaded, and the node is live with that primary
C14_Witness ==
  /\ last.op = "load"
  /\ ~last.failed
  /\ IsCascade("N")
  /\ nodes["N"].casc[1].shape = LifeShape
  /\ nodes["N"].casc[1].primary.shape = LifeShape
  /\ ShapeMismatch(disk, last.path)

\* C13: a constructor given a negative recursion depth fails: for every
\* levels < 0 it ends in a panic, having made no recursive constructor call,
\* and returns no node.
C13_NegativeLevelsFail ==
  (ctor.phase = "done" /\ ctor.levels < 0) =>
    /\ ctor.panic
    /\ ctor.node = NoNode
    /\ \A n \in 1..Len(ctor.made) : ctor.made[n].call # "new"

\* a constructor called with levels = -1 has panicked after building only
\* its primary stage
C13_Witness ==
  /\ ctor.phase = "done"
  /\ ctor.levels = -1
  /\ ctor.panic
  /\ Len(ctor.made) = 1
  /\ ctor.made[1].call = "stage"

\* C15: when the save of the primary or of the backup under newPath fails,
\* save returns an error to its caller and the node's location and
\* historical set are as before the call: the node still owns its previous
\* path unless it is fully persisted at newPath.
C15_FailedSaveLeavesNode ==
  [][\A i \in Ids : (Step("save", i) /\ last'.failed) =>
       /\ Live(i)'
       /\ nodes'[i].casc[1].dir = nodes[i].casc[1].dir
       /\ nodes'[i].casc[1].past = nodes[i].casc[1].past]_vars

\* the save of a scratch node to another path has failed at its primary:
\* the node is persisted at the new path, which is not on disk, and its old
\* path has joined its historical set
C15_Witness ==
  /\ last.op = "save"
  /\ last.failed
  /\ last.count = 1
  /\ last.was.tag = "Internal"
  /\ last.was.path # last.path
  /\ nodes[last.id].casc[1].dir = User(last.path)
  /\ nodes[last.id].casc[1].past = Append(last.past, last.was.path)
  /\ ~Exists(disk, last.path)

RECURSIVE SumSeq(_)
SumSeq(q) == IF q = <<>> THEN 0 ELSE Head(q) + SumSeq(Tail(q))

\* C16: train on a trainable cascade with at least 100 examples returns
\* primary_accuracy + backup_accuracy: the accuracy that training the
\* primary reported plus what the training of the backup returned, which
\* for a terminal stage is its accuracy and for a nested cascade is again
\* such a sum; a nested cascade that is given fewer than 100 examples
\* trains nothing and contributes 0, so that the result is the primary's
\* accuracy.
C16_TrainReturnsSum ==
  [][\A i \in Ids : (Step("train", i) /\ last'.count >= MinExamples) =>
       LET acc == last'.acc
           log == last'.log
           nested == Len(nodes[i].casc) >= 2
       IN /\ Len(acc) >= 1
          /\ log[3][1] = "backup"
          /\ last'.ret = acc[1] + SumSeq(Tail(acc))
          /\ (nested /\ log[3][2] < MinExamples) =>
               (Len(log) = 3 /\ acc = <<acc[1]>> /\ last'.ret = acc[1])
          /\ (nested /\ log[3][2] >= MinExamples) =>
               (Len(acc) >= 2 /\ log[4] = <<"probe", log[3][2]>>)
          /\ ~nested =>
               (Len(acc) = 2 /\ log[4] = <<"leaf", log[3][2]>>
                  /\ last'.ret = acc[1] + acc[2])]_vars

\* a cascade whose backup is a cascade has been trained on 100 examples of
\* which the backup was given 50: the result is the primary's accuracy
C16_Witness ==
  /\ last.op = "train"
  /\ last.count = MinExamples
  /\ Len(last.log) = 3
  /\ last.log[3] = <<"backup", FewExamples>>
  /\ last.acc = <<last.ret>>
  /\ last.ret > 0

\* C17: train_batch hands its arguments to the primary stage's batch
\* trainer and to nothing else: the backup and every stage below it, the
\* node's shape, location and historical set and every nested node are as
\* before, no probe is created and the disk is not touched.
C17_TrainBatchPrimaryOnly ==
  [][\A i \in Ids : Step("train_batch", i) =>
       /\ last'.log = << <<"primary", last'.count>> >>
       /\ nodes'[i].kind = nodes[i].kind
       /\ nodes'[i].leaf = nodes[i].leaf
       /\ Tail(nodes'[i].casc) = Tail(nodes[i].casc)
       /\ nodes'[i].casc[1] =
            [nodes[i].casc[1] EXCEPT !.primary.w = nodes'[i].casc[1].primary.w]
       /\ nodes'[i].casc[1].primary.w # nodes[i].casc[1].primary.w
       /\ \A j \in Ids \ {i} : nodes'[j] = nodes[j]
       /\ disk' = disk]_vars

\* train_batch has been applied to a cascade with a nested backup: its
\* primary has new weights, the stages below have the weights they had
C17_Witness ==
  /\ last.op = "train_batch"
  /\ last.count = MinExamples
  /\ Len(nodes[last.id].casc) >= 2
  /\ nodes[last.id].casc[1].primary.w = 1
  /\ nodes[last.id].casc[2].primary.w = 0
  /\ nodes[last.id].leaf.w = 0

\* the cascade of the other kind, given the same stage outputs
OtherKind == [pred EXCEPT !.kind = IF @ = "inference" THEN "trainable" ELSE "inference"]

\* C18: the inference cascade and the trainable cascade use one escalation
\* convention: on the same primary outputs both run the same stages and
\* give the same answer (both delegate to the backup or both return the
\* truncated primary output), and a signal equal to the label 1 that
\* training gives to the examples the probe got wrong is routed to the
\* backup.
C18_OneEscalationConvention ==
  pred.phase = "done" =>
    /\ Forward(OtherKind, 1, <<>>).ran = pred.ran
    /\ Forward(OtherKind, 1, <<>>).out = pred.out
    /\ RootSignal = WrongLabel => BackupConsulted

\* the trainable cascade has answered with its truncated primary output on
\* the signal 1.0, on which the inference cascade consults its backup
C18_Witness ==
  /\ pred.phase = "done"
  /\ pred.kind = "trainable"
  /\ RootSignal = WrongLabel
  /\ ~BackupConsulted
  /\ pred.out = TruncatedPrimary
  /\ Len(Forward(OtherKind, 1, <<>>).ran) > 1

\* C19: predict on a cascade built with depth n terminates and returns a
\* vector of the externally-visible output width: it runs the stages of the
\* backup chain in order from the root, each at most once, stops at the
\* first primary whose signal does not escalate, returning that primary's
\* output without its last element, or at the terminal leaf, returning the
\* leaf's output; the node (its location and historical set included) and
\* the disk are as before.
C19_PredictTerminates ==
  [][\A i \in Ids : Step("predict", i) =>
       LET node == nodes[i]
           n == Len(node.casc)
           ran == last'.log
           sigs == last'.sigs
           out == last'.out
           width == OutWidth(ShapeOf(node.casc, node.leaf))
           stopped == Len(ran)
       IN /\ Len(out) = width
          /\ stopped \in 1..(n + 1)
          /\ \A k \in 1..stopped :
               ran[k] = IF k <= n THEN <<"primary", k>> ELSE <<"leaf", n>>
          /\ \A k \in 1..(stopped - 1) : Escalation[node.kind][sigs[k]]
          /\ stopped <= n =>
               /\ ~Escalation[node.kind][sigs[stopped]]
               /\ out = [j \in 1..width |-> StageOutput(node.casc, sigs, stopped)[j]]
          /\ stopped = n + 1 => out = [j \in 1..width |-> LeafAnswer]
          /\ nodes' = nodes
          /\ disk' = disk]_vars

\* predict on a cascade with a nested backup has run every stage of the
\* chain once and has returned the answer of the terminal leaf
C19_Witness ==
  /\ last.op = "predict"
  /\ Len(nodes[last.id].casc) = 2
  /\ last.log = << <<"primary", 1>>, <<"primary", 2>>, <<"leaf", 2>> >>
  /\ last.out = <<LeafAnswer>>

\* C20: ReLU forward maps every element x to x if x > 0 and to 0
\* otherwise, keeping the length; backward passes a gradient element
\* through at the positions where the output of the forward pass was
\* positive and zeroes it elsewhere, so that after forward on [-1, 0, 1] the
\* backward of [0.5, 0.5, 0.5] is [0, 0, 0.5].
C20_ReLUGatesByForward ==
  /\ act.phase \in {"forwarded", "done"} =>
       /\ Len(act.output) = Len(act.input)
       /\ \A i \in 1..Len(act.input) :
            act.output[i] = IF act.input[i] > 0 THEN act.input[i] ELSE 0
  /\ act.phase = "done" =>
       /\ Len(act.grad_input) = Len(act.grad_output)
       /\ \A i \in 1..Len(act.grad_output) :
            act.grad_input[i] = IF act.output[i] > 0 THEN act.grad_output[i] ELSE 0

\* after forward on [-1, 0, 1], which gave [0, 0, 1], the backward of
\* [0.5, 0.5, 0.5] has given [0.5, 0.5, 0.5]
C20_Witness ==
  /\ act.phase = "done"
  /\ act.input = <<-2, 0, 2>>
  /\ act.output = <<0, 0, 2>>
  /\ act.grad_output = <<1, 1, 1>>
  /\ act.grad_input = <<1, 1, 1>>

\* the forward half of the claim, and backward as the code has it: the
\* gradient passes where the gradient itself is positive
ReLUAsCoded ==
  /\ act.phase \in {"forwarded", "done"} =>
       /\ Len(act.output) = Len(act.input)
       /\ \A i \in 1..Len(act.input) :
            act.output[i] = IF act.input[i] > 0 THEN act.input[i] ELSE 0
  /\ act.phase = "done" =>
       /\ Len(act.grad_input) = Len(act.grad_output)
       /\ \A i \in 1..Len(act.grad_output) :
            act.grad_input[i] = IF act.grad_output[i] > 0 THEN act.grad_output[i] ELSE 0

\* the sizes the layer reports are the sizes it was last built or resized to
SizesAsDeclared ==
  /\ DenseInputSize(dense.l) = dense.declared.cols
  /\ DenseOutputSize(dense.l) = dense.declared.rows

\* C22: for a dense layer, input_size() is the number of input neurons and
\* output_size() the number of output neurons: they are i and o right after
\* new(i, o), i2 and o2 right after resize(i2, o2), and a forward pass on an
\* input of the layer's input width or a backward pass leaves them so.
C22_SizesAsBuilt ==
  [][/\ dense'.op \in {"new", "resize"} => SizesAsDeclared'
     /\ (/\ dense.phase = "live"
         /\ SizesAsDeclared
         /\ \/ dense'.op = "forward" /\ dense'.arg = dense.declared.cols
            \/ dense'.op = "backward")
        => SizesAsDeclared']_vars

\* new(1, 1) has been called and input_size() is 0
C22_Witness ==
  /\ dense.phase = "live"
  /\ dense.op = "new"
  /\ dense.declared = Matrix(1, 1)
  /\ DenseInputSize(dense.l) = 0
  /\ DenseOutputSize(dense.l) = 1

\* C29: after any sequence of new, forward, backward, update_weights,
\* adjust_adam, resize, read and assign_weights, the weights, the weight
\* gradients and both Adam moment matrices are all output_size x input_size,
\* the biases, bias gradients and both Adam bias moments all have length
\* output_size, and update_weights and adjust_adam never index outside any
\* of them.
C29_SameDimensions ==
  dense.phase = "live" =>
    LET l == dense.l
    IN /\ dense.op \in {"update_weights", "adjust_adam"} => l.fault = "none"
       /\ l.fault = "none" =>
            /\ l.weights = dense.declared
            /\ l.weight_grads = l.weights
            /\ l.m_weights = l.weights
            /\ l.v_weights = l.weights
            /\ l.biases = dense.declared.rows
            /\ l.bias_grads = l.biases
            /\ l.m_biases = l.biases
            /\ l.v_biases = l.biases

\* adjust_adam has indexed outside the Adam moments of a layer that was
\* resized from 1 x 1 to 2 x 2
C29_Witness ==
  /\ dense.phase = "live"
  /\ dense.op = "adjust_adam"
  /\ dense.l.fault = "index"
  /\ dense.l.weights = Matrix(2, 2)
  /\ dense.l.weight_grads = Matrix(2, 2)
  /\ dense.l.bias_grads = 2
  /\ dense.l.m_weights = Matrix(1, 1)
  /\ dense.l.m_biases = 1

\* the examples that train used in the given way
UsedFor(kind) == {net.log[k][2] : k \in {i \in 1..Len(net.log) : net.log[i][1] = kind}}

\* C23: train fails unless 0 <= validation_split <= 1; otherwise it splits the
\* examples into two disjoint contiguous parts that together hold every
\* example once, evaluates the held-out part, of size
\* round(n * validation_split), without ever updating weights from it, and
\* updates weights only from the other examples.
C23_HoldsOutValidationSplit ==
  net.phase = "done" =>
    /\ net.panic <=> (net.validation_split < 0 \/ net.validation_split > 4)
    /\ (~net.panic /\ net.epochs > 0) =>
         LET held == UsedFor("validate")
             trained == UsedFor("update")
         IN /\ held \cap trained = {}
            /\ held \cup trained = 1..net.n
            /\ \E a \in 0..net.n : held = 1..a \/ held = (a + 1)..net.n
            /\ Cardinality(held) = RoundQuarters(net.n * net.validation_split)

\* train on 4 examples with validation_split 0.25 has updated weights from
\* example 1 and only evaluated examples 2, 3 and 4
C23_Witness ==
  /\ net.phase = "done"
  /\ net.n = 4 /\ net.validation_split = 1 /\ net.epochs = 1
  /\ net.log = <<(<<"update", 1>>), (<<"validate", 2>>),
                 (<<"validate", 3>>), (<<"validate", 4>>)>>

\* train has gone past its guard and trained the stages
TrainedOnData == data.phase = "done" /\ data.r.trained

\* the stage's prediction for example i is within the tolerance of the
\* given target in every dimension of the prediction
WithinTolerance(stage, i, target) ==
  LET prediction == stage[data.call.inputs[i][1]]
  IN \A k \in 1..Len(prediction) :
       Abs(prediction[k] - target[k]) < data.call.tolerance

\* C24: the augmented training set has as many examples as the input data,
\* with the same inputs in the same order; each augmented target is the
\* original target followed by one label, 0 exactly when every output
\* dimension of the probe's prediction is strictly within tolerance of the
\* target and 1 otherwise; the probe is a scratch stage of the un-augmented
\* shape, trained on the full data set before any label is computed.
C24_LabelsFromProbe ==
  TrainedOnData =>
    LET c == data.call
        r == data.r
        n == Len(c.inputs)
    IN /\ Len(r.primary_targets) = n
       /\ r.primary_inputs = c.inputs
       /\ \A i \in 1..n :
            r.primary_targets[i] =
              Append(c.targets[i],
                     IF WithinTolerance(c.probe, i, c.targets[i])
                     THEN 0 ELSE 100)
       /\ r.temp_neural_network.shape = c.self.shape
       /\ r.temp_neural_network.shape # c.self.primary.shape
       /\ r.temp_neural_network.dir.tag = "Internal"
       /\ r.temp_inputs = c.inputs /\ r.temp_targets = c.targets
       /\ r.calls[1] = <<"temp_primary", "train">>
       /\ \A k \in 2..Len(r.calls) : r.calls[k] # <<"temp_primary", "train">>

\* of two kinds of example, the probe was right on the first, which got
\* label 0, and exactly the tolerance off on the second, which got label 1
C24_Witness ==
  /\ TrainedOnData
  /\ data.call.inputs[1] # data.call.inputs[2]
  /\ WithinTolerance(data.call.probe, 1, data.call.targets[1])
  /\ data.r.primary_targets[1] = Append(data.call.targets[1], 0)
  /\ Abs(data.call.probe[2][1] - data.call.targets[2][1]) = data.call.tolerance
  /\ data.r.primary_targets[2] = Append(data.call.targets[2], 100)

\* the examples of the augmented set that the trained primary predicts
\* strictly within tolerance in every channel, the label included
PrimaryRight ==
  {i \in 1..Len(data.call.inputs) :
     WithinTolerance(data.call.primary, i, data.r.primary_targets[i])}

\* C25: the examples handed to the backup's train are exactly the
\* order-preserving subsequence of the augmented set that the primary, asked
\* after its own training, predicts strictly within tolerance in every
\* channel, the escalation label included; each kept target has lost its
\* label and equals the original target; the backup is trained after the
\* primary and never on an example the primary got wrong.
C25_BackupGetsWhatPrimaryGotRight ==
  TrainedOnData =>
    LET c == data.call
        r == data.r
        Rank(i) == Cardinality({m \in PrimaryRight : m <= i})
    IN /\ Len(r.backup_inputs) = Cardinality(PrimaryRight)
       /\ Len(r.backup_targets) = Cardinality(PrimaryRight)
       /\ \A i \in PrimaryRight :
            /\ r.backup_inputs[Rank(i)] = c.inputs[i]
            /\ r.backup_targets[Rank(i)] = c.targets[i]
       /\ r.calls[Len(r.calls)] = <<"backup", "train">>
       /\ \A k \in 1..Len(r.calls) :
            r.calls[k][1] = "primary" =>
              /\ k < Len(r.calls)
              /\ r.calls[k][2] = "predict" =>
                   \E j \in 1..(k - 1) : r.calls[j] = <<"primary", "train">>

\* of two kinds of example the primary got one right and the other wrong in
\* the label alone: the backup was trained on every second example
C25_Witness ==
  /\ TrainedOnData
  /\ 1 \in PrimaryRight
  /\ 2 \notin PrimaryRight
  /\ Abs(data.call.primary[2][1] - data.r.primary_targets[2][1])
       < data.call.tolerance
  /\ Len(data.r.backup_inputs) * 2 = Len(data.call.inputs)
  /\ data.r.backup_targets[2] = data.call.targets[3]

\* every node of the chain of cascade i has the shape of its backup, and
\* its primary the augmented form of that shape
CascadeShapes(i) ==
  LET casc == nodes[i].casc
  IN \A k \in 1..Len(casc) :
       /\ casc[k].shape = ShapeOf(SubSeq(casc, k + 1, Len(casc)), nodes[i].leaf)
       /\ casc[k].primary.shape = AddInternalDimensions(casc[k].shape).shape

\* C26: in every reachable state of every cascade node, after new, load,
\* save, duplicate, train and train_batch, the node's shape equals the shape
\* of its backup and the shape of its primary stage is the augmented form of
\* that shape.
C26_CascadeShapeInvariant ==
  \A i \in Ids : IsCascade(i) => CascadeShapes(i)

\* a tree whose primary and whose backup both hold the shape 1 -> 2 has been
\* loaded: the node has the shape 1 -> 2 of its backup and a primary of
\* that same shape, not of its augmented form
C26_Witness ==
  /\ last.op = "load"
  /\ ~last.failed
  /\ IsCascade("N")
  /\ Len(nodes["N"].casc) = 1
  /\ nodes["N"].leaf.shape = AddInternalDimensions(LifeShape).shape
  /\ nodes["N"].casc[1].shape = nodes["N"].leaf.shape
  /\ nodes["N"].casc[1].primary.shape = nodes["N"].casc[1].shape

\* the current location of cascade i
Location(i) == nodes[i].casc[1].dir.path

\* C27: at every point of every sequence of new, load, save, duplicate,
\* clone and teardown operations, a path is the current location of at most
\* one live node, and the teardown of a node flushes or deletes no
\* directory that is the location of another live node, so that no
\* directory is flushed or deleted by two different nodes.
C27_OnePathOneNode ==
  [][/\ \A i \in Ids, j \in Ids :
          (i # j /\ IsCascade(i)' /\ IsCascade(j)') => Location(i)' # Location(j)'
     /\ \A i \in Ids :
          Step("teardown", i) =>
            \A j \in Ids \ {i} : IsCascade(j) => Location(j) # last'.was.path]_vars

\* node N, persisted at u, has been cloned and then released, which flushed
\* u; its clone D is still live and persisted at u
C27_Witness ==
  /\ last.op = "teardown"
  /\ last.id = "N"
  /\ last.was = User(Root("u"))
  /\ ~Live("N")
  /\ IsCascade("D")
  /\ nodes["D"].casc[1].dir = User(Root("u"))

\* the versions of the files that directory c holds
FileVersions(c) ==
  ({c.shape} \cup {c.layers[i] : i \in 1..Len(c.layers)}) \ {0}

\* C28: when save(dir) overwrites an existing model directory, the previous
\* contents are moved to dir_backup before any new file is written, and
\* dir_backup is removed only after the shape descriptor and all layer files
\* have been written; at every intermediate step, and after a failure at any
\* step, a complete copy of the model exists on disk once one has existed.
C28_StagedSave ==
  [][/\ (IsComplete(net.dir) \/ IsComplete(net.backup))
          => (IsComplete(net'.dir) \/ IsComplete(net'.backup))
     /\ FileVersions(net'.dir) \ FileVersions(net.dir) # {}
          => FileVersions(net.dir) \subseteq {net.version}
     /\ (net.backup.exists /\ net'.backup # net.backup /\ net'.backup # net.dir)
          => (IsComplete(net.dir) /\ net.dir.shape = net.version)]_vars

\* the second save of a two-layer network has failed at its second layer
\* file: the directory holds the new descriptor and first layer, and
\* dir_backup the complete previous model
C28_Witness ==
  /\ net.pc = "ready" /\ net.res = "err"
  /\ net.n = 2 /\ net.version = 2
  /\ net.dir.shape = 2 /\ net.dir.layers = <<2, -1>>
  /\ IsComplete(net.backup) /\ net.backup.shape = 1

\* the number of chunks chunks(batch_size) cuts n examples into
Chunks(n, batch_size) == (n + batch_size - 1) \div batch_size

\* a chunk of train_batch is about to process its first example
BatchStarts ==
  /\ net.pc = "batch"
  /\ net.in_batch = 0
  /\ net.k <= Len(net.examples)

NoGradients(l) ==
  /\ \A i \in 1..Len(l.weight_grads) :
       \A j \in 1..Len(l.weight_grads[i]) : l.weight_grads[i][j] = 0
  /\ \A i \in 1..Len(l.bias_grads) : l.bias_grads[i] = 0

\* C30: train_batch updates the weights once per batch of at most batch_size
\* examples per epoch, and when a batch starts the layer's gradient
\* accumulators hold nothing of an earlier batch or epoch, so the update
\* uses the sum of that batch's gradients only.
C30_PerBatchGradients ==
  /\ BatchStarts => NoGradients(net.layer)
  /\ net.pc = "batch" => net.in_batch <= net.batch_size
  /\ net.pc = "done" /\ net.batch_size > 0
       => net.updates = net.i * Chunks(Len(net.examples), net.batch_size)

\* the second batch starts on accumulators that still hold the first batch's
\* gradient, which the first update has already applied to the weights
C30_Witness ==
  /\ BatchStarts
  /\ net.updates = 1
  /\ net.k > 1
  /\ net.layer.weight_grads[1][1] # 0
  /\ net.layer.weights # BatchLayer(1, 0, TRUE).weights

====
